---- MODULE Spec2Model ----
(***************************************************************************)
(* A state-machine model of the StratoVirt virtio-net backend              *)
(* (virtio/src/net.rs): the Net device record, its NetIoHandler and        *)
(* NetCtrlHandler callbacks, and the epoll-driven event loop they run on.  *)
(*                                                                         *)
(* Conventions                                                             *)
(*   - a feature word (u64 / u32) is the set of its set bit positions;     *)
(*   - Option<Tap> is a tap serial (>= 0) or -1 for None, exactly as       *)
(*     tap_fd: RawFd uses -1; the fd of tap k of queue pair i is           *)
(*     <<"tap", k, i>>;                                                    *)
(*   - an eventfd object is <<kind, i>>; the fd a handler of activation g  *)
(*     holds on it (try_clone) is <<kind, g, i>>;                          *)
(*   - an I/O handler is <<g, i>>: activation g, queue pair i (0-based).   *)
(***************************************************************************)
EXTENDS Integers, Sequences, FiniteSets, TLC

(***************************************************************************)
(* Bounds of the model.                                                    *)
(***************************************************************************)
\* chains the guest posts on one rx queue
MaxRxPost == 2
\* chains the guest posts on one tx queue
MaxTxPost == 3
\* requests the guest posts on the control queue
MaxCtrlPost == 2
\* packets that arrive on the tap of one queue pair
MaxPkts == 2
\* update_config calls
MaxUpdates == 1
\* update_config calls of a hot reconfiguration that follow each other
MaxCoalesced == 2
\* activate calls
MaxGen == 2
\* realize calls
MaxRealize == 2

(***************************************************************************)
(* Program constants.  The VIRTIO_* values are defined in virtio/src/lib.rs*)
(* (imported at net.rs:20-29); their values are those of the virtio 1.1    *)
(* standard and of spec section 4.4.                                       *)
(***************************************************************************)
QUEUE_NUM_NET == 2
MAC_ADDR_LEN == 6
VIRTIO_NET_F_CSUM == 0
VIRTIO_NET_F_GUEST_CSUM == 1
VIRTIO_NET_F_MAC == 5
VIRTIO_NET_F_GUEST_TSO4 == 7
VIRTIO_NET_F_GUEST_TSO6 == 8
VIRTIO_NET_F_GUEST_ECN == 9
VIRTIO_NET_F_GUEST_UFO == 10
VIRTIO_NET_F_HOST_TSO4 == 11
VIRTIO_NET_F_HOST_TSO6 == 12
VIRTIO_NET_F_HOST_UFO == 14
VIRTIO_NET_F_CTRL_VQ == 17
VIRTIO_NET_F_MQ == 22
VIRTIO_NET_F_CTRL_MAC_ADDR == 23
VIRTIO_F_RING_EVENT_IDX == 29
VIRTIO_F_VERSION_1 == 32
VIRTIO_NET_CTRL_MQ == 4
VIRTIO_NET_CTRL_MQ_VQ_PAIRS_SET == 0
VIRTIO_NET_CTRL_MQ_VQ_PAIRS_MIN == 1
VIRTIO_NET_CTRL_MQ_VQ_PAIRS_MAX == 32768
VIRTIO_NET_OK == 0
VIRTIO_NET_ERR == 1

(***************************************************************************)
(* Feature words as sets of bit positions.                                 *)
(***************************************************************************)
\* util::num_ops::read_u32(value, page): the 32-bit page of a 64-bit word
read_u32(value, page) ==
    IF page \in {0, 1}
    THEN {b - 32 * page : b \in {x \in value : x \div 32 = page}}
    ELSE {}

\* util::num_ops::write_u32(value, page): a 32-bit word placed at its page
write_u32(value, page) ==
    IF page \in {0, 1} THEN {b + 32 * page : b \in value} ELSE {}

virtio_has_feature(features, bit) == bit \in features

VARIABLES
    \* ---- Net (the device record) ----
    net_cfg,          \* NetworkInterfaceConfig: [mq, queues, mac, host_dev]
    device_features,  \* state.device_features
    driver_features,  \* state.driver_features
    taps,             \* Option<Vec<Tap>>: [some, v], v the tap serials per pair
    senders,          \* Option<Vec<Sender>>: [some, v], v the handlers served
    realized,         \* number of realize calls (the serial of the next taps)
    gen,              \* number of activate calls
    updates,          \* number of update_config calls
    lifecycle,        \* the transition the last accepted lifecycle call made
    config_space,     \* state.config_space as bytes (VirtioNetConfig, packed)
    cfg_io,           \* the last read_config or write_config call and its result
    offload,          \* tap <<index, serial>> -> the flags set_offload wrote to it
    \* ---- event loop ----
    notifiers,        \* registered fds: fd -> [status, cbs]
    ready,            \* the fds the last wait returned, not yet dispatched
    run,              \* the fd being dispatched: [fd, rest, ops] (fd = <<>>: idle)
    signaled,         \* the eventfd objects whose counter is not 0
    edge,             \* edge-triggered tap fds with an unreported readiness edge
    loop_fault,       \* notifier operations the registry could not apply
    \* ---- handlers ----
    io,               \* NetIoHandler per <<g, i>>: [tap, tap_fd, is_listening, queue_full]
    ctrl,             \* the activations that created a NetCtrlHandler
    chan,             \* the channel of each I/O handler: messages not yet received
    \* ---- virtqueues (guest memory) ----
    rxq,              \* per pair: [avail, last_avail, used]
    txq,              \* per pair: [avail, last_avail, used]
    ctrlq,            \* [avail, last_avail, used, ack]
    \* ---- host side and device status ----
    host,             \* per pair: [arr, rd, st, room, sent]
    needs_reset,      \* report_virtio_error was called (DEVICE_NEEDS_RESET)
    \* ---- history ----
    hist,             \* [deact_returned, cb_after_deact, failed]
    \* ---- VFIO PCI passthrough ----
    vfio,             \* VfioPciDevice and the host device behind it
    \* ---- machine manager ----
    vm_config,        \* VmConfig.dev_name and the parse_balloon calls made on it
    machine           \* a MachineLifecycle implementor: its state and requests

devVars == <<net_cfg, device_features, driver_features, taps, senders, realized, gen,
             updates, lifecycle, config_space, cfg_io, offload>>
loopVars == <<notifiers, ready, run, signaled, edge, loop_fault>>
hVars == <<io, ctrl, chan>>
qVars == <<rxq, txq, ctrlq>>
envVars == <<host, needs_reset, hist>>
vfioVars == <<vfio>>
mmVars == <<vm_config, machine>>
vars == <<devVars, loopVars, hVars, qVars, envVars, vfioVars, mmVars>>

(***************************************************************************)
(* Small helpers.                                                          *)
(***************************************************************************)
Pairs == {0, 1}
EmptyFn == [x \in {} |-> 0]
Merge(f, g) == [x \in (DOMAIN f) \cup (DOMAIN g) |-> IF x \in DOMAIN g THEN g[x] ELSE f[x]]
Without(f, x) == [y \in (DOMAIN f) \ {x} |-> f[y]]
NoneVec == [some |-> FALSE, v |-> <<>>]
SomeVec(v) == [some |-> TRUE, v |-> v]
NoTap == 0 - 1
IdleRun == [fd |-> <<>>, rest |-> <<>>, ops |-> <<>>]

\* fds and the eventfd object behind an fd
TapFd(i, k) == <<"tap", k, i>>
EvtFd(kind, h) == <<kind, h[1], h[2]>>
IsTapFd(fd) == fd[1] = "tap"
EvtOf(fd) ==
    CASE fd[1] = "update" -> <<"update", 0>>
      [] fd[1] \in {"deact", "cdeact"} -> <<"deact", 0>>
      [] fd[1] = "ctrl" -> <<"ctrl", 0>>
      [] OTHER -> <<fd[1], fd[3]>>

\* packets waiting in the tap of pair i
Pending(hst, i) == hst[i].arr - hst[i].rd

(***************************************************************************)
(* The notifier registry of the event loop (util::loop_context, not part   *)
(* of the sources at hand; modelled from spec sections 3 and 4.1).         *)
(* A registry value is [n, e, r, f]: notifiers, edge, ready, loop_fault.   *)
(***************************************************************************)
Notifier(op, fd, h) == [op |-> op, fd |-> fd, h |-> h]

\* a tap fd that is (re-)armed while its tap holds packets reports them
ArmEdge(e, fd, hst) ==
    IF IsTapFd(fd) /\ Pending(hst, fd[3]) > 0 THEN e \cup {fd} ELSE e

ApplyOp(s, o, hst) ==
    LET reg == o.fd \in DOMAIN s.n IN
    CASE o.op = "AddShared" ->
           IF reg
           THEN [s EXCEPT !.n[o.fd].cbs = Append(@, o.h)]
           ELSE [s EXCEPT !.n = Merge(s.n, [x \in {o.fd} |->
                                              [status |-> "Alive", cbs |-> <<o.h>>]]),
                          !.e = ArmEdge(s.e, o.fd, hst)]
      [] o.op = "Delete" ->
           IF reg
           THEN [s EXCEPT !.n = Without(s.n, o.fd), !.e = @ \ {o.fd}, !.r = @ \ {o.fd}]
           ELSE [s EXCEPT !.f = @ \cup {"Delete"}]
      [] o.op = "Park" ->
           IF reg /\ s.n[o.fd].status = "Alive"
           THEN [s EXCEPT !.n[o.fd].status = "Parked", !.e = @ \ {o.fd}, !.r = @ \ {o.fd}]
           ELSE [s EXCEPT !.f = @ \cup {"Park"}]
      [] o.op = "Resume" ->
           IF reg /\ s.n[o.fd].status = "Parked"
           THEN [s EXCEPT !.n[o.fd].status = "Alive", !.e = ArmEdge(s.e, o.fd, hst)]
           ELSE [s EXCEPT !.f = @ \cup {"Resume"}]

\* the ops of a batch applied in order; t is the registry after the first op
RECURSIVE update_events(_, _, _)
update_events(s, ops, hst) ==
    IF ops = <<>> THEN s
    ELSE CHOOSE r \in {update_events(t, Tail(ops), hst) :
                          t \in {ApplyOp(s, Head(ops), hst)}} : TRUE

Registry == [n |-> notifiers, e |-> edge, r |-> ready, f |-> loop_fault]
EmptyRegistry == [n |-> EmptyFn, e |-> {}, r |-> {}, f |-> {}]

(***************************************************************************)
(* Net: realize, features, activate, deactivate, unrealize.                *)
(***************************************************************************)
\* build_device_config_space: the MAC feature bit, set iff the string parses
build_device_config_space(mac) ==
    IF mac = "ok" THEN {VIRTIO_NET_F_MAC} ELSE {}

\* VirtioNetConfig is repr(C, packed): mac 6 bytes, status 2, max_virtqueue_pairs
\* 2, mtu 2, speed 4, duplex 1
CONFIG_LEN == 17
\* the byte offset of max_virtqueue_pairs in VirtioNetConfig
MAX_VIRTQUEUE_PAIRS_OFFSET == 8
\* VirtioNetConfig::default()
DefaultConfigSpace == [i \in 1..CONFIG_LEN |-> 0]
\* the bytes a well-formed MAC string parses to (52:54:00:12:34:56)
MacBytes == <<82, 84, 0, 18, 52, 86>>

\* slice[offset .. offset + data.len()].copy_from_slice(data)
copy_from_slice(slice, offset, data) ==
    [i \in 1..Len(slice) |->
        IF i > offset /\ i <= offset + Len(data) THEN data[i - offset] ELSE slice[i]]

\* realize, net.rs:883-891 and 915-918: what realize writes to the config space
\* (max_virtqueue_pairs is little-endian; the MAC only if the string parses)
realize_config(cs, cfg) ==
    LET queue_pairs == cfg.queues \div 2
        c1 == IF cfg.mq /\ queue_pairs >= VIRTIO_NET_CTRL_MQ_VQ_PAIRS_MIN
                 /\ queue_pairs <= VIRTIO_NET_CTRL_MQ_VQ_PAIRS_MAX
              THEN copy_from_slice(cs, MAX_VIRTQUEUE_PAIRS_OFFSET,
                                   <<queue_pairs % 256, queue_pairs \div 256>>)
              ELSE cs
    IN IF cfg.mac = "ok" THEN copy_from_slice(c1, 0, MacBytes) ELSE c1

\* no read_config or write_config call yet
NoCfgIo == [op |-> "none", offset |-> 0, data |-> <<>>, ok |-> TRUE, out |-> <<>>,
            state |-> "Uninit"]

\* realize, net.rs:872-891 and 915-918: the features the device offers
realize_features(cfg) ==
    LET queue_pairs == cfg.queues \div 2 IN
    {VIRTIO_F_VERSION_1, VIRTIO_NET_F_CSUM, VIRTIO_NET_F_GUEST_CSUM,
     VIRTIO_NET_F_GUEST_TSO4, VIRTIO_NET_F_GUEST_TSO6, VIRTIO_NET_F_GUEST_UFO,
     VIRTIO_NET_F_HOST_TSO4, VIRTIO_NET_F_HOST_TSO6, VIRTIO_NET_F_HOST_UFO,
     VIRTIO_F_RING_EVENT_IDX}
    \cup (IF cfg.mq /\ queue_pairs >= VIRTIO_NET_CTRL_MQ_VQ_PAIRS_MIN
             /\ queue_pairs <= VIRTIO_NET_CTRL_MQ_VQ_PAIRS_MAX
          THEN {VIRTIO_NET_F_MQ, VIRTIO_NET_F_CTRL_VQ} ELSE {})
    \cup (IF cfg.mac # "none" THEN build_device_config_space(cfg.mac) ELSE {})

\* create_tap: one fresh tap per queue pair, or None without a host device
create_tap(cfg, serial) ==
    IF cfg.host_dev
    THEN SomeVec([i \in 1..(cfg.queues \div 2) |-> serial])
    ELSE NoneVec

\* Net::queue_num
queue_num(cfg) == IF cfg.mq THEN cfg.queues + 1 ELSE QUEUE_NUM_NET

\* Net::get_device_features / get_driver_features
get_device_features(features_select) == read_u32(device_features, features_select)
get_driver_features(features_select) == read_u32(driver_features, features_select)

\* VirtioDevice::checked_driver_features (virtio/src/lib.rs, not part of the
\* sources at hand): the value masked by the offered features of its page,
\* merged with the other page of the driver features
checked_driver_features(page, value) ==
    LET v == value \cap get_device_features(page) IN
    IF page = 0
    THEN write_u32(get_driver_features(1), 1) \cup write_u32(v, 0)
    ELSE write_u32(v, 1) \cup write_u32(get_driver_features(0), 0)

\* a slip: the guest's value is stored without the mask
set_driver_features_unmasked(page, value) ==
    /\ driver_features' = write_u32(value, page) \cup write_u32(get_driver_features(1 - page), 1 - page)
    /\ UNCHANGED <<net_cfg, device_features, taps, senders, realized, gen, updates, lifecycle>>
    /\ UNCHANGED <<config_space, cfg_io, offload>>
    /\ UNCHANGED <<mmVars, vfioVars, loopVars, hVars, qVars, envVars>>

\* Net::set_driver_features
set_driver_features(page, value) ==
    /\ driver_features' = checked_driver_features(page, value)
    /\ UNCHANGED <<net_cfg, device_features, taps, senders, realized, gen, updates, lifecycle>>
    /\ UNCHANGED <<config_space, cfg_io, offload>>
    /\ UNCHANGED <<mmVars, vfioVars, loopVars, hVars, qVars, envVars>>

\* Net::realize
realize ==
    /\ realized < MaxRealize
    /\ device_features' = realize_features(net_cfg)
    /\ taps' = create_tap(net_cfg, realized)
    /\ realized' = realized + 1
    /\ lifecycle' = "Created"
    /\ config_space' = realize_config(config_space, net_cfg)
    /\ UNCHANGED <<net_cfg, driver_features, senders, gen, updates, cfg_io, offload>>
    /\ UNCHANGED <<mmVars, vfioVars, loopVars, hVars, qVars, envVars>>

\* Net::unrealize: unregisters the migration instance and returns Ok
unrealize ==
    /\ lifecycle' = "Uninit"
    /\ UNCHANGED <<net_cfg, device_features, driver_features, taps, senders, realized, gen,
                   updates, config_space, cfg_io, offload>>
    /\ UNCHANGED <<mmVars, vfioVars, loopVars, hVars, qVars, envVars>>

\* the buffer after data.write_all(src): src is never longer than data here
write_all(data, src) == src \o SubSeq(data, Len(src) + 1, Len(data))

\* a slip: the bound test of read_config lets offset = config_len through
read_config_past_end(offset, data) ==
    LET config_len == Len(config_space)
        end == offset + Len(data)
        r == IF offset > config_len
             THEN [ok |-> FALSE, data |-> data]
             ELSE [ok |-> TRUE,
                   data |-> write_all(data,
                                SubSeq(config_space, offset + 1,
                                       IF end < config_len THEN end ELSE config_len))]
    IN /\ cfg_io' = [op |-> "read", offset |-> offset, data |-> data, ok |-> r.ok,
                     out |-> r.data, state |-> lifecycle]
       /\ UNCHANGED <<net_cfg, device_features, driver_features, taps, senders, realized,
                      gen, updates, lifecycle, config_space, offload>>
       /\ UNCHANGED <<mmVars, vfioVars, loopVars, hVars, qVars, envVars>>

\* Net::read_config.  offset.checked_add(data.len()) cannot fail once
\* offset < config_len, so the copy always happens on the Ok path.
read_config(offset, data) ==
    LET config_len == Len(config_space)
        end == offset + Len(data)
        r == IF offset >= config_len
             THEN [ok |-> FALSE, data |-> data]
             ELSE [ok |-> TRUE,
                   data |-> write_all(data,
                                SubSeq(config_space, offset + 1,
                                       IF end < config_len THEN end ELSE config_len))]
    IN /\ cfg_io' = [op |-> "read", offset |-> offset, data |-> data, ok |-> r.ok,
                     out |-> r.data, state |-> lifecycle]
       /\ UNCHANGED <<net_cfg, device_features, driver_features, taps, senders, realized,
                      gen, updates, lifecycle, config_space, offload>>
       /\ UNCHANGED <<mmVars, vfioVars, loopVars, hVars, qVars, envVars>>

\* a slip: the MAC is written whatever the negotiated features are
write_config_any_features(offset, data) ==
    LET data_len == Len(data) IN
    /\ config_space' =
          IF /\ offset = 0
             /\ data_len = MAC_ADDR_LEN
             /\ data # SubSeq(config_space, 1, data_len)
          THEN copy_from_slice(config_space, offset, data)
          ELSE config_space
    /\ cfg_io' = [op |-> "write", offset |-> offset, data |-> data, ok |-> TRUE,
                  out |-> data, state |-> lifecycle]
    /\ UNCHANGED <<net_cfg, device_features, driver_features, taps, senders, realized,
                   gen, updates, lifecycle, offload>>
    /\ UNCHANGED <<mmVars, vfioVars, loopVars, hVars, qVars, envVars>>

\* Net::write_config
write_config(offset, data) ==
    LET data_len == Len(data) IN
    /\ config_space' =
          IF /\ ~virtio_has_feature(driver_features, VIRTIO_NET_F_CTRL_MAC_ADDR)
             /\ ~virtio_has_feature(driver_features, VIRTIO_F_VERSION_1)
             /\ offset = 0
             /\ data_len = MAC_ADDR_LEN
             /\ data # SubSeq(config_space, 1, data_len)
          THEN copy_from_slice(config_space, offset, data)
          ELSE config_space
    /\ cfg_io' = [op |-> "write", offset |-> offset, data |-> data, ok |-> TRUE,
                  out |-> data, state |-> lifecycle]
    /\ UNCHANGED <<net_cfg, device_features, driver_features, taps, senders, realized,
                   gen, updates, lifecycle, offload>>
    /\ UNCHANGED <<mmVars, vfioVars, loopVars, hVars, qVars, envVars>>

\* NetIoHandler::internal_notifiers: the notifiers of I/O handler h with tap k
io_notifiers(h, k) ==
    <<Notifier("AddShared", EvtFd("update", h), h),
      Notifier("AddShared", EvtFd("deact", h), h),
      Notifier("AddShared", EvtFd("rx", h), h),
      Notifier("AddShared", EvtFd("tx", h), h)>>
    \o (IF k # NoTap THEN <<Notifier("AddShared", TapFd(h[2], k), h)>> ELSE <<>>)

\* NetCtrlHandler::internal_notifiers
ctrl_notifiers(h) ==
    <<Notifier("AddShared", EvtFd("ctrl", h), h),
      Notifier("AddShared", EvtFd("cdeact", h), h)>>

\* get_tap_offload_flags: the TUN_F_* flags of the negotiated guest offloads
get_tap_offload_flags(features) ==
    (IF virtio_has_feature(features, VIRTIO_NET_F_GUEST_CSUM) THEN {"TUN_F_CSUM"} ELSE {})
    \cup (IF virtio_has_feature(features, VIRTIO_NET_F_GUEST_TSO4) THEN {"TUN_F_TSO4"} ELSE {})
    \cup (IF virtio_has_feature(features, VIRTIO_NET_F_GUEST_TSO6) THEN {"TUN_F_TSO6"} ELSE {})
    \cup (IF virtio_has_feature(features, VIRTIO_NET_F_GUEST_ECN) THEN {"TUN_F_TSO_ECN"} ELSE {})
    \cup (IF virtio_has_feature(features, VIRTIO_NET_F_GUEST_UFO) THEN {"TUN_F_UFO"} ELSE {})

\* tap.set_offload(flags) on the first n taps of tv; a tap is <<index, serial>>
set_offload(off, tv, n, flags) ==
    IF tv.some
    THEN LET ts == {<<i, tv.v[i + 1]>> : i \in 0..(n - 1)} IN
         [t \in DOMAIN off \cup ts |-> IF t \in ts THEN flags ELSE off[t]]
    ELSE off

\* the tap Net::activate hands to the handler of pair index
TapAt(tv, index) == IF tv.some THEN tv.v[index + 1] ELSE NoTap

RECURSIVE pair_notifiers(_, _, _, _)
pair_notifiers(g, tv, index, queue_pairs) ==
    IF index >= queue_pairs THEN <<>>
    ELSE io_notifiers(<<g, index>>, TapAt(tv, index))
         \o pair_notifiers(g, tv, index + 1, queue_pairs)

\* Net::activate as a function of the device record: what activation g creates
activation(cfg, drv, tv, g) ==
    LET qn == queue_num(cfg)
        has_ctrl == virtio_has_feature(drv, VIRTIO_NET_F_CTRL_VQ) /\ qn % 2 # 0
        queue_pairs == qn \div 2
        hs == {<<g, i>> : i \in 0..(queue_pairs - 1)}
    IN [ctrl |-> IF has_ctrl THEN {g} ELSE {},
        io |-> [h \in hs |-> [tap |-> TapAt(tv, h[2]), tap_fd |-> TapAt(tv, h[2]),
                              is_listening |-> TRUE, queue_full |-> FALSE]],
        chan |-> [h \in hs |-> <<>>],
        senders |-> SomeVec([i \in 1..queue_pairs |-> <<g, i - 1>>]),
        offload |-> set_offload(EmptyFn, tv, queue_pairs,
                                get_tap_offload_flags(read_u32(drv, 0))),
        ops |-> (IF has_ctrl THEN ctrl_notifiers(<<g, 0>>) ELSE <<>>)
                \o pair_notifiers(g, tv, 0, queue_pairs)]

\* Net::activate
activate ==
    /\ gen < MaxGen
    /\ taps.some => Len(taps.v) >= queue_num(net_cfg) \div 2
    /\ LET a == activation(net_cfg, driver_features, taps, gen + 1)
           s == update_events(Registry, a.ops, host)
       IN /\ io' = Merge(io, a.io)
          /\ chan' = Merge(chan, a.chan)
          /\ ctrl' = ctrl \cup a.ctrl
          /\ senders' = a.senders
          /\ notifiers' = s.n /\ edge' = s.e /\ ready' = s.r /\ loop_fault' = s.f
    /\ gen' = gen + 1
    /\ lifecycle' = "Activated"
    /\ hist' = [hist EXCEPT !.deact_returned = FALSE]
    /\ offload' = set_offload(offload, taps, queue_num(net_cfg) \div 2,
                              get_tap_offload_flags(get_driver_features(0)))
    /\ UNCHANGED <<net_cfg, device_features, driver_features, taps, realized, updates>>
    /\ UNCHANGED <<config_space, cfg_io>>
    /\ UNCHANGED <<mmVars, vfioVars, run, signaled, qVars, host, needs_reset>>

\* Net::deactivate: writes the deactivate eventfd and returns
deactivate ==
    /\ signaled' = signaled \cup {<<"deact", 0>>}
    /\ lifecycle' = "Deactivated"
    /\ hist' = [hist EXCEPT !.deact_returned = TRUE]
    /\ UNCHANGED <<net_cfg, device_features, driver_features, taps, senders, realized, gen,
                   updates, config_space, cfg_io, offload>>
    /\ UNCHANGED <<mmVars, vfioVars, notifiers, ready, run, edge, loop_fault, hVars, qVars, host, needs_reset>>

(***************************************************************************)
(* Virtqueues.  Queue (virtio/src/queue.rs) is not part of the sources at  *)
(* hand; pop_avail, add_used, push_back and avail_ring_len are modelled    *)
(* from spec section 4.2.  A chain is a record identified by its position  *)
(* in the avail ring; pop_avail rejects a chain of kind "bad" (one that    *)
(* fails bounds or structural validation).                                 *)
(***************************************************************************)
\* no_interrupt and used_event are the driver's side of interrupt suppression
\* (the avail ring's flags and used_event); irq are the positions of the used
\* ring at which the device raised a Vring interrupt
EmptyQueue ==
    [avail |-> <<>>, last_avail |-> 0, used |-> <<>>, no_interrupt |-> FALSE,
     used_event |-> 0, irq |-> <<>>]

avail_ring_len(q) == Len(q.avail) - q.last_avail

pop_avail(q) ==
    IF avail_ring_len(q) = 0
    THEN [err |-> FALSE, desc_num |-> 0, index |-> 0, q |-> q]
    ELSE IF q.avail[q.last_avail + 1].kind = "bad"
    THEN [err |-> TRUE, desc_num |-> 0, index |-> 0, q |-> q]
    ELSE [err |-> FALSE, desc_num |-> 1, index |-> q.last_avail + 1,
          q |-> [q EXCEPT !.last_avail = @ + 1]]

\* a slip: the popped chain is not given back
push_back_missing(q) == q

push_back(q) == [q EXCEPT !.last_avail = @ - 1]

add_used(q, index, len) == [q EXCEPT !.used = Append(@, [id |-> index, len |-> len])]

\* should_notify: without RING_EVENT_IDX the driver's NO_INTERRUPT flag
\* decides; with it, used_event must lie in (prev_used_idx, used_idx], and one
\* entry was added since the previous call
should_notify(q, features) ==
    IF virtio_has_feature(features, VIRTIO_F_RING_EVENT_IDX)
    THEN q.used_event = Len(q.used)
    ELSE ~q.no_interrupt

\* a slip: the interrupt is raised for every used entry
notify_used_always(q, features) == [q EXCEPT !.irq = Append(@, Len(q.used))]

\* handle_rx, net.rs:364-376 (handle_tx, net.rs:430-443): the Vring interrupt
\* behind should_notify
notify_used(q, features) ==
    IF should_notify(q, features) THEN [q EXCEPT !.irq = Append(@, Len(q.used))] ELSE q

(***************************************************************************)
(* The host side of one queue pair: arr packets arrived at the tap, rd of  *)
(* them were read; packet k has length k, so a used length names the       *)
(* packet.  st is the state of the tap device; room is the number of       *)
(* packets writev still accepts; sent are the tx chains written.           *)
(***************************************************************************)
\* writev accepts at most this many packets until the tap drains
MaxTxRoom == 2

InitHost == [arr |-> 0, rd |-> 0, st |-> "ok", room |-> MaxTxRoom, sent |-> <<>>]

\* libc::readv on the tap: the next packet, EAGAIN, or another error
readv(hs) ==
    IF hs.st # "ok" THEN [n |-> 0 - 1, would_block |-> FALSE, hs |-> hs]
    ELSE IF hs.arr - hs.rd = 0 THEN [n |-> 0 - 1, would_block |-> TRUE, hs |-> hs]
    ELSE [n |-> hs.rd + 1, would_block |-> FALSE, hs |-> [hs EXCEPT !.rd = @ + 1]]

\* tap.read(&mut buf): drains one packet where the tap can still be read
tap_read(hs) ==
    IF hs.st = "fault" /\ hs.arr - hs.rd > 0 THEN [hs EXCEPT !.rd = @ + 1] ELSE hs

\* libc::writev on the tap
writev(hs, index) ==
    IF hs.st = "gone" \/ hs.room = 0 THEN [n |-> 0 - 1, hs |-> hs]
    ELSE [n |-> 1, hs |-> [hs EXCEPT !.room = @ - 1, !.sent = Append(@, index)]]

(***************************************************************************)
(* NetIoHandler::handle_rx, net.rs:295-380.  The result is the queue, the  *)
(* host side, whether queue_full was set, and Ok / Err.                    *)
(***************************************************************************)
RxResult(q, hs, queue_full, ok) == [q |-> q, hs |-> hs, queue_full |-> queue_full, ok |-> ok]

RECURSIVE handle_rx(_, _, _)
handle_rx(q, hs, tap) ==
    IF tap = NoTap THEN RxResult(q, hs, FALSE, TRUE)
    ELSE IF avail_ring_len(q) = 0 THEN RxResult(q, hs, TRUE, TRUE)
    ELSE LET elem == pop_avail(q) IN
         IF elem.err THEN RxResult(q, hs, FALSE, FALSE)
         ELSE IF elem.desc_num = 0 THEN RxResult(q, hs, FALSE, TRUE)
         ELSE LET r == readv(hs) IN
              IF r.n < 0
              THEN IF r.would_block
                   THEN RxResult(push_back(elem.q), hs, FALSE, TRUE)
                   ELSE RxResult(push_back(elem.q), tap_read(hs), FALSE, TRUE)
              ELSE handle_rx(notify_used(add_used(elem.q, elem.index, r.n), driver_features),
                             r.hs, tap)

(***************************************************************************)
(* NetIoHandler::handle_tx, net.rs:382-447.                                *)
(***************************************************************************)
TxResult(q, hs, ok, why) == [q |-> q, hs |-> hs, ok |-> ok, why |-> why]

\* a slip: the used length is what writev wrote
tx_used_len_written(read_len) == read_len

\* handle_tx, net.rs:426-429: add_used(&self.mem_space, elem.index, 0)
tx_used_len(read_len) == 0

RECURSIVE handle_tx(_, _, _)
handle_tx(q, hs, tap) ==
    LET elem == pop_avail(q) IN
    IF elem.err THEN TxResult(q, hs, FALSE, "pop")
    ELSE IF elem.desc_num = 0 THEN TxResult(q, hs, TRUE, "")
    ELSE LET w == IF tap # NoTap THEN writev(hs, elem.index) ELSE [n |-> 0, hs |-> hs] IN
         IF w.n < 0 THEN TxResult(elem.q, hs, FALSE, "io")
         ELSE handle_tx(notify_used(add_used(elem.q, elem.index, tx_used_len(w.n)),
                                    driver_features),
                        w.hs, tap)

(***************************************************************************)
(* NetCtrlHandler::handle_ctrl, net.rs:115-186.  A control request is      *)
(* [kind, nout, class, cmd, pairs, st]: nout out descriptors (the header,  *)
(* then the queue-pair count) and st whether it has a status descriptor.   *)
(* ack is the set of <<chain, byte>> status bytes written to guest memory. *)
(***************************************************************************)
EmptyCtrlQueue ==
    [avail |-> <<>>, last_avail |-> 0, used |-> <<>>, no_interrupt |-> FALSE,
     used_event |-> 0, irq |-> <<>>, ack |-> {}]

CtrlResult(q, ok) == [q |-> q, ok |-> ok]

handle_ctrl(q) ==
    LET elem == pop_avail(q) IN
    IF elem.err THEN CtrlResult(q, FALSE)
    ELSE IF elem.desc_num = 0 THEN CtrlResult(q, TRUE)
    ELSE LET req == q.avail[elem.index]
             hdr_len == IF req.nout >= 1 THEN 2 ELSE 0
             mq_len == IF req.nout >= 2 THEN 2 ELSE 0
             st_len == IF req.st THEN 1 ELSE 0
             reject ==
                 /\ req.nout >= 1
                 /\ \/ req.class # VIRTIO_NET_CTRL_MQ
                    \/ req.cmd # VIRTIO_NET_CTRL_MQ_VQ_PAIRS_SET
                    \/ /\ req.nout >= 2
                       /\ ~(req.pairs \in VIRTIO_NET_CTRL_MQ_VQ_PAIRS_MIN
                                          ..VIRTIO_NET_CTRL_MQ_VQ_PAIRS_MAX)
         IN IF reject THEN CtrlResult(elem.q, FALSE)
            ELSE CtrlResult(
                   notify_used(add_used([elem.q EXCEPT !.ack = IF req.st
                                                   THEN @ \cup {<<elem.index, VIRTIO_NET_OK>>}
                                                   ELSE @],
                            elem.index, hdr_len + mq_len + st_len),
                               driver_features),
                   TRUE)

(***************************************************************************)
(* The event loop: wait, then one callback at a time.  The notifiers a     *)
(* callback returns are applied when the callbacks of its fd have run.     *)
(***************************************************************************)
DeactEvt == <<"deact", 0>>

Readable(fd) ==
    IF IsTapFd(fd)
    THEN fd \in edge /\ (Pending(host, fd[3]) > 0 \/ host[fd[3]].st # "ok")
    ELSE EvtOf(fd) \in signaled

Harvest == {fd \in DOMAIN notifiers : notifiers[fd].status = "Alive" /\ Readable(fd)}

\* epoll wait: returns the armed fds that are ready
Wait ==
    /\ ready = {} /\ run = IdleRun
    /\ Harvest # {}
    /\ ready' = Harvest
    /\ edge' = edge \ Harvest
    /\ UNCHANGED <<notifiers, run, signaled, loop_fault>>
    /\ UNCHANGED <<mmVars, vfioVars, devVars, hVars, qVars, envVars>>

\* callback h of fd is the next one the loop calls
Cur(fd, h) ==
    IF run = IdleRun
    THEN fd \in ready /\ fd \in DOMAIN notifiers /\ Head(notifiers[fd].cbs) = h
    ELSE run.fd = fd /\ Head(run.rest) = h

\* the callback returned ops: apply them once the last callback of fd has run
Finish(fd, ops, hst) ==
    LET rest == IF run = IdleRun THEN Tail(notifiers[fd].cbs) ELSE Tail(run.rest)
        all == run.ops \o ops
    IN IF rest = <<>>
       THEN LET s == update_events([Registry EXCEPT !.r = ready \ {fd}], all, hst)
            IN /\ notifiers' = s.n /\ edge' = s.e /\ ready' = s.r /\ loop_fault' = s.f
               /\ run' = IdleRun
       ELSE /\ run' = [fd |-> fd, rest |-> rest, ops |-> all]
            /\ UNCHANGED <<notifiers, edge, ready, loop_fault>>

\* util::loop_context::read_fd: reads the eventfd, which resets its counter
read_fd(sig, fd) == sig \ {EvtOf(fd)}

\* report_virtio_error (virtio/src/lib.rs, not part of the sources at hand;
\* spec section 7): sets DEVICE_NEEDS_RESET and signals deactivate_evt
report_virtio_error(sig) == sig \cup {DeactEvt}

\* history: a data callback ran after deactivate() returned; handler failures
Note(data_cb, failure) ==
    hist' = [hist EXCEPT !.cb_after_deact = @ \/ (data_cb /\ hist.deact_returned),
                         !.failed = @ \cup failure]

(***************************************************************************)
(* The callbacks of NetIoHandler::internal_notifiers, net.rs:557-672.      *)
(***************************************************************************)
\* a slip: the rx queue-evt callback marks the handler listening but returns
\* no Resume
RxKickCb_without_resume(fd, h) ==
    /\ fd[1] = "rx" /\ Cur(fd, h)
    /\ signaled' = read_fd(signaled, fd)
    /\ io' = [io EXCEPT ![h].is_listening = TRUE]
    /\ Finish(fd, <<>>, host)
    /\ Note(TRUE, {})
    /\ UNCHANGED <<mmVars, vfioVars, devVars, ctrl, chan, qVars, host, needs_reset>>

\* rx queue-evt callback, net.rs:588-605
RxKickCb(fd, h) ==
    /\ fd[1] = "rx" /\ Cur(fd, h)
    /\ signaled' = read_fd(signaled, fd)
    /\ LET resume == io[h].tap # NoTap /\ ~io[h].is_listening IN
       /\ io' = [io EXCEPT ![h].is_listening = IF resume THEN TRUE ELSE @]
       /\ Finish(fd, IF resume THEN <<Notifier("Resume", TapFd(h[2], io[h].tap), h)>>
                     ELSE <<>>, host)
    /\ Note(TRUE, {})
    /\ UNCHANGED <<mmVars, vfioVars, devVars, ctrl, chan, qVars, host, needs_reset>>

\* tx queue-evt callback, net.rs:616-622: an error of handle_tx is only logged
TxKickCb(fd, h) ==
    /\ fd[1] = "tx" /\ Cur(fd, h)
    /\ LET r == handle_tx(txq[h[2]], host[h[2]], io[h].tap) IN
       /\ txq' = [txq EXCEPT ![h[2]] = r.q]
       /\ host' = [host EXCEPT ![h[2]] = r.hs]
       /\ Note(TRUE, IF r.ok THEN {} ELSE {<<"tx", r.why>>})
       /\ Finish(fd, <<>>, host')
    /\ signaled' = read_fd(signaled, fd)
    /\ UNCHANGED <<mmVars, vfioVars, devVars, hVars, rxq, ctrlq, needs_reset>>

\* tap callback, net.rs:634-660
TapCb(fd, h) ==
    /\ IsTapFd(fd) /\ Cur(fd, h)
    /\ LET r == handle_rx(rxq[h[2]], host[h[2]], io[h].tap)
           queue_full == io[h].queue_full \/ r.queue_full
           park == io[h].tap # NoTap /\ queue_full
       IN /\ rxq' = [rxq EXCEPT ![h[2]] = r.q]
          /\ host' = [host EXCEPT ![h[2]] = r.hs]
          /\ needs_reset' = (needs_reset \/ ~r.ok)
          /\ signaled' = IF r.ok THEN signaled ELSE report_virtio_error(signaled)
          /\ io' = [io EXCEPT ![h].is_listening = IF park THEN FALSE ELSE @,
                              ![h].queue_full = IF park THEN FALSE ELSE queue_full]
          /\ Note(TRUE, IF r.ok THEN {} ELSE {<<"rx", "pop">>})
          /\ Finish(fd, IF park THEN <<Notifier("Park", TapFd(h[2], io[h].tap), h)>>
                        ELSE <<>>, host')
    /\ UNCHANGED <<mmVars, vfioVars, devVars, ctrl, chan, txq, ctrlq>>

\* the channel of h still has its sender
SenderAlive(h) == senders.some /\ \E k \in DOMAIN senders.v : senders.v[k] = h

\* NetIoHandler::update_evt_handler, net.rs:449-496, behind the callback of
\* net.rs:562-565; receiver.recv() blocks on an empty channel with a sender
UpdateCb(fd, h) ==
    /\ fd[1] = "update" /\ Cur(fd, h)
    /\ chan[h] # <<>> \/ ~SenderAlive(h)
    /\ signaled' = read_fd(signaled, fd)
    /\ LET tap == IF chan[h] # <<>> THEN Head(chan[h]) ELSE NoTap
           old_tap_fd == io[h].tap_fd
       IN /\ chan' = [chan EXCEPT ![h] = IF @ # <<>> THEN Tail(@) ELSE @]
          /\ io' = [io EXCEPT ![h].tap = tap, ![h].tap_fd = tap]
          /\ Finish(fd,
                    <<Notifier("Delete", EvtFd("update", h), h),
                      Notifier("Delete", EvtFd("rx", h), h),
                      Notifier("Delete", EvtFd("tx", h), h)>>
                    \o (IF old_tap_fd # NoTap
                        THEN <<Notifier("Delete", TapFd(h[2], old_tap_fd), h)>> ELSE <<>>)
                    \o io_notifiers(h, tap),
                    host)
    /\ Note(TRUE, {})
    /\ UNCHANGED <<mmVars, vfioVars, devVars, ctrl, qVars, host, needs_reset>>

\* a slip: the Delete batch forgets the tap fd
deactivate_evt_handler_without_tap(h) ==
    <<Notifier("Delete", EvtFd("update", h), h),
      Notifier("Delete", EvtFd("deact", h), h),
      Notifier("Delete", EvtFd("rx", h), h),
      Notifier("Delete", EvtFd("tx", h), h)>>

\* NetIoHandler::deactivate_evt_handler, net.rs:498-541: the Delete batch
deactivate_evt_handler(h) ==
    <<Notifier("Delete", EvtFd("update", h), h),
      Notifier("Delete", EvtFd("deact", h), h),
      Notifier("Delete", EvtFd("rx", h), h),
      Notifier("Delete", EvtFd("tx", h), h)>>
    \o (IF io[h].tap_fd # NoTap
        THEN <<Notifier("Delete", TapFd(h[2], io[h].tap_fd), h)>> ELSE <<>>)

\* the deactivate callback of an I/O handler, net.rs:575-578
DeactCb(fd, h) ==
    /\ fd[1] = "deact" /\ Cur(fd, h)
    /\ signaled' = read_fd(signaled, fd)
    /\ io' = [io EXCEPT ![h].tap_fd = NoTap]
    /\ Finish(fd, deactivate_evt_handler(h), host)
    /\ Note(FALSE, {})
    /\ UNCHANGED <<mmVars, vfioVars, devVars, ctrl, chan, qVars, host, needs_reset>>

(***************************************************************************)
(* The callbacks of NetCtrlHandler::internal_notifiers, net.rs:210-251.    *)
(***************************************************************************)
\* control queue-evt callback, net.rs:214-226
CtrlCb(fd, h) ==
    /\ fd[1] = "ctrl" /\ Cur(fd, h)
    /\ LET r == handle_ctrl(ctrlq) IN
       /\ ctrlq' = r.q
       /\ needs_reset' = (needs_reset \/ ~r.ok)
       /\ signaled' = IF r.ok THEN read_fd(signaled, fd)
                      ELSE report_virtio_error(read_fd(signaled, fd))
       /\ Note(TRUE, IF r.ok THEN {}
                     ELSE {<<"ctrl", IF r.q.last_avail = ctrlq.last_avail THEN "pop"
                                     ELSE "req">>})
    /\ Finish(fd, <<>>, host)
    /\ UNCHANGED <<mmVars, vfioVars, devVars, hVars, rxq, txq, host>>

\* NetCtrlHandler::deactivate_evt_handler, net.rs:188-207
CtrlDeactCb(fd, h) ==
    /\ fd[1] = "cdeact" /\ Cur(fd, h)
    /\ signaled' = read_fd(signaled, fd)
    /\ Finish(fd,
              <<Notifier("Delete", EvtFd("ctrl", h), h),
                Notifier("Delete", EvtFd("cdeact", h), h)>>,
              host)
    /\ Note(FALSE, {})
    /\ UNCHANGED <<mmVars, vfioVars, devVars, hVars, qVars, host, needs_reset>>

(***************************************************************************)
(* Net::update_config, net.rs:1069-1117.                                   *)
(***************************************************************************)
\* NetworkInterfaceConfig::default()
DefaultCfg == [mq |-> FALSE, queues |-> 2, mac |-> "none", host_dev |-> FALSE]

\* a handler lives as long as a registered callback holds it
HandlerAlive(h) ==
    \/ \E fd \in DOMAIN notifiers : \E k \in DOMAIN notifiers[fd].cbs :
          notifiers[fd].cbs[k] = h /\ fd[1] \notin {"ctrl", "cdeact"}
    \/ \E k \in DOMAIN run.rest : run.rest[k] = h /\ run.fd[1] \notin {"ctrl", "cdeact"}

\* the loop over the senders, net.rs:1094-1109: [taps, chan, ok]
RECURSIVE send_taps(_, _, _, _)
send_taps(index, tv, ch, sv) ==
    IF index >= Len(sv) THEN [taps |-> tv, chan |-> ch, ok |-> TRUE]
    ELSE LET h == sv[index + 1]
             taken == NoneVec
         IN IF tv.some
            THEN IF index >= Len(tv.v) \/ ~HandlerAlive(h)
                 THEN [taps |-> taken, chan |-> ch, ok |-> FALSE]
                 ELSE send_taps(index + 1, taken,
                                [ch EXCEPT ![h] = Append(@, tv.v[index + 1])], sv)
            ELSE IF ~HandlerAlive(h)
                 THEN [taps |-> taken, chan |-> ch, ok |-> FALSE]
                 ELSE send_taps(index + 1, taken, [ch EXCEPT ![h] = Append(@, NoTap)], sv)

\* Net::update_config(Some(conf)), or update_config(None) for DefaultCfg
Net_update_config(conf) ==
    /\ net_cfg' = conf
    /\ device_features' = realize_features(conf)
    /\ realized' = realized + 1
    /\ IF senders.some
       THEN LET r == send_taps(0, create_tap(conf, realized), chan, senders.v) IN
            /\ taps' = r.taps
            /\ chan' = r.chan
            /\ signaled' = IF r.ok THEN signaled \cup {<<"update", 0>>} ELSE signaled
       ELSE /\ taps' = create_tap(conf, realized)
            /\ UNCHANGED <<chan, signaled>>
    /\ config_space' = realize_config(config_space, conf)
    /\ offload' = IF conf # DefaultCfg
                  THEN set_offload(offload, taps, Len(taps.v),
                                   get_tap_offload_flags(get_driver_features(0)))
                  ELSE offload
    /\ UNCHANGED <<driver_features, senders, gen, lifecycle, cfg_io>>
    /\ UNCHANGED <<mmVars, vfioVars, notifiers, ready, run, edge, loop_fault, io, ctrl, qVars, envVars>>

\* at most MaxUpdates calls of update_config in a behaviour
update_config(conf) ==
    /\ updates < MaxUpdates
    /\ updates' = updates + 1
    /\ Net_update_config(conf)

(***************************************************************************)
(* The guest and the host.                                                 *)
(***************************************************************************)
ActivePairs == {h[2] : h \in DOMAIN io}

DataChains == {[kind |-> "ok"], [kind |-> "bad"]}

CtrlReqs ==
    {[kind |-> "bad", nout |-> 0, class |-> 0, cmd |-> 0, pairs |-> 0, st |-> FALSE]}
    \cup {[kind |-> "ok", nout |-> 0, class |-> 0, cmd |-> 0, pairs |-> 0, st |-> s] :
            s \in BOOLEAN}
    \cup {[kind |-> "ok", nout |-> 1, class |-> c, cmd |-> m, pairs |-> 0, st |-> s] :
            c \in {VIRTIO_NET_CTRL_MQ, 1}, m \in {VIRTIO_NET_CTRL_MQ_VQ_PAIRS_SET, 1},
            s \in BOOLEAN}
    \cup {[kind |-> "ok", nout |-> 2, class |-> c, cmd |-> m, pairs |-> n, st |-> s] :
            c \in {VIRTIO_NET_CTRL_MQ, 1}, m \in {VIRTIO_NET_CTRL_MQ_VQ_PAIRS_SET, 1},
            n \in {0, 2, VIRTIO_NET_CTRL_MQ_VQ_PAIRS_MAX + 1}, s \in BOOLEAN}

GuestPostRx(i, c) ==
    /\ i \in ActivePairs /\ Len(rxq[i].avail) < MaxRxPost
    /\ rxq' = [rxq EXCEPT ![i].avail = Append(@, c)]
    /\ UNCHANGED <<mmVars, vfioVars, devVars, loopVars, hVars, txq, ctrlq, envVars>>

GuestPostTx(i, c) ==
    /\ i \in ActivePairs /\ Len(txq[i].avail) < MaxTxPost
    /\ txq' = [txq EXCEPT ![i].avail = Append(@, c)]
    /\ UNCHANGED <<mmVars, vfioVars, devVars, loopVars, hVars, rxq, ctrlq, envVars>>

GuestPostCtrl(c) ==
    /\ Len(ctrlq.avail) < MaxCtrlPost
    /\ ctrlq' = [ctrlq EXCEPT !.avail = Append(@, c)]
    /\ UNCHANGED <<mmVars, vfioVars, devVars, loopVars, hVars, rxq, txq, envVars>>

\* the driver of rx queue i suppresses interrupts or asks for them: with
\* RING_EVENT_IDX it writes used_event, without it the NO_INTERRUPT flag
GuestSuppress(i, no_interrupt, used_event) ==
    /\ i \in ActivePairs
    /\ IF virtio_has_feature(driver_features, VIRTIO_F_RING_EVENT_IDX)
       THEN no_interrupt = rxq[i].no_interrupt /\ used_event # rxq[i].used_event
       ELSE no_interrupt # rxq[i].no_interrupt /\ used_event = rxq[i].used_event
    /\ rxq' = [rxq EXCEPT ![i].no_interrupt = no_interrupt, ![i].used_event = used_event]
    /\ UNCHANGED <<mmVars, vfioVars, devVars, loopVars, hVars, txq, ctrlq, envVars>>

\* the guest kicks a queue: its queue eventfd is written
GuestKick(evt) ==
    /\ evt \notin signaled
    /\ signaled' = signaled \cup {evt}
    /\ UNCHANGED <<mmVars, vfioVars, devVars, notifiers, ready, run, edge, loop_fault, hVars, qVars, envVars>>

ArmedTapFds(i) ==
    {fd \in DOMAIN notifiers : IsTapFd(fd) /\ fd[3] = i /\ notifiers[fd].status = "Alive"}

\* a packet arrives at the tap of pair i
TapArrive(i) ==
    /\ i \in ActivePairs /\ host[i].arr < MaxPkts
    /\ host' = [host EXCEPT ![i].arr = @ + 1]
    /\ edge' = edge \cup ArmedTapFds(i)
    /\ UNCHANGED <<mmVars, vfioVars, devVars, notifiers, ready, run, signaled, loop_fault, hVars, qVars,
                   needs_reset, hist>>

\* the tap of pair i starts failing: "fault" (readv fails, the tap can still
\* be read) or "gone" (the tap device was removed)
TapFail(i, st) ==
    /\ i \in ActivePairs /\ host[i].st = "ok"
    /\ host' = [host EXCEPT ![i].st = st]
    /\ edge' = edge \cup ArmedTapFds(i)
    /\ UNCHANGED <<mmVars, vfioVars, devVars, notifiers, ready, run, signaled, loop_fault, hVars, qVars,
                   needs_reset, hist>>

\* the tap of pair i sent what was written to it
TapTxDrain(i) ==
    /\ i \in ActivePairs /\ host[i].room < MaxTxRoom
    /\ host' = [host EXCEPT ![i].room = MaxTxRoom]
    /\ UNCHANGED <<mmVars, vfioVars, devVars, loopVars, hVars, qVars, needs_reset, hist>>

(***************************************************************************)
(* VFIO PCI passthrough: the MSI-X table carve and MSI-X enable/disable.   *)
(* The pci crate (PciConfig, Msix, ranges_overlap, is_msix_enabled), the   *)
(* VfioDevice and vfio_enable_msix / vfio_disable_msix / register_bars are *)
(* not part of the sources at hand; they follow the design document.       *)
(***************************************************************************)
\* guest writes to the PCI config space of the passthrough device
MaxCfgWrites == 3
\* MSI-X vectors of the passthrough device in the enable/disable runs
MaxVectors == 2

\* pci::config
COMMAND == 4
BAR_0 == 16
BAR_5 == 36
REG_SIZE == 4
\* pci::msix
MSIX_CAP_CONTROL == 2
MSIX_CAP_SIZE == 12
MSIX_TABLE_ENTRY_SIZE == 16
MSIX_TABLE_SIZE_MAX == 2047
\* the size VFIO reports for the config region, and where this device's MSI-X
\* capability sits in it
VFIO_CONFIG_SIZE == 256
MsixCapOffset == 112

MmapInfo(offset, size) == [offset |-> offset, size |-> size]

\* x & (0 - page_size), page_size a power of two
page_align(x, page_size) == x - (x % page_size)

\* VfioPciDevice::get_msix_info: the table of the device hw
get_msix_info(hw) ==
    LET enteries == (hw.ctrl % (MSIX_TABLE_SIZE_MAX + 1)) + 1 IN
    [table_offset |-> hw.table_offset,
     table_size |-> (enteries * MSIX_TABLE_ENTRY_SIZE) % 65536,
     enteries |-> enteries]

\* a slip: the end of the table is not rounded up to the page size
fixup_msix_region_end_unaligned(region, table, page_size) ==
    IF \/ Len(region.mmaps) # 1
       \/ region.mmaps[1].offset # 0
       \/ region.size # region.mmaps[1].size
    THEN region.mmaps
    ELSE LET start == page_align(table.table_offset, page_size)
             end == table.table_offset + table.table_size
         IN IF start = 0
            THEN IF end >= region.size THEN <<>>
                 ELSE <<MmapInfo(end, region.size - end)>>
            ELSE IF end >= region.size
                 THEN <<MmapInfo(region.mmaps[1].offset, start)>>
                 ELSE <<MmapInfo(0, start), MmapInfo(end, region.size - end)>>

\* VfioPciDevice::fixup_msix_region: the mmap list of the table BAR afterwards
fixup_msix_region(region, table, page_size) ==
    IF \/ Len(region.mmaps) # 1
       \/ region.mmaps[1].offset # 0
       \/ region.size # region.mmaps[1].size
    THEN region.mmaps
    ELSE LET start == page_align(table.table_offset, page_size)
             end == page_align(table.table_offset + table.table_size + (page_size - 1),
                               page_size)
         IN IF start = 0
            THEN IF end >= region.size THEN <<>>
                 ELSE <<MmapInfo(end, region.size - end)>>
            ELSE IF end >= region.size
                 THEN <<MmapInfo(region.mmaps[1].offset, start)>>
                 ELSE <<MmapInfo(0, start), MmapInfo(end, region.size - end)>>

NoMsixInfo == [table_offset |-> 0, table_size |-> 0, enteries |-> 0]
NoWrite ==
    [offset |-> 0, size |-> 0, branch |-> "none", call |-> "none", ok |-> TRUE,
     sent |-> FALSE, remap |-> FALSE, mmap |-> FALSE]
NoRead == [offset |-> 0, buf |-> <<>>, out |-> <<>>, from |-> "none"]

\* the config space sizes VFIO reports, and the part of the image the model
\* keeps byte by byte (the standard header)
PCIE_CONFIG_SPACE_SIZE == 4096
PCI_CONFIG_HEAD_END == 64
HEADER_TYPE == 14
INTERRUPT_PIN == 61
COMMAND_MEMORY_SPACE == 2

\* x & y on the low n bits
RECURSIVE BitAnd(_, _, _)
BitAnd(x, y, n) ==
    IF n = 0 THEN 0
    ELSE (x % 2) * (y % 2) + 2 * BitAnd(x \div 2, y \div 2, n - 1)

\* the header the host device reports: vendor and device id, COMMAND as the
\* host left it, STATUS with a capability list, one 32-bit prefetchable memory
\* BAR with a host address in it, the capability pointer, interrupt line and pin
HostHeader(command, device_lo, header_type, int_pin) ==
    [o \in 0..(PCI_CONFIG_HEAD_END - 1) |->
        CASE o = 0 -> 134 [] o = 1 -> 128 [] o = 2 -> device_lo [] o = 3 -> 21
          [] o = COMMAND -> command [] o = COMMAND + 2 -> 16
          [] o = 11 -> 2 [] o = HEADER_TYPE -> header_type
          [] o = BAR_0 -> 8 [] o = BAR_0 + 3 -> 254
          [] o = 52 -> MsixCapOffset [] o = 60 -> 11 [] o = INTERRUPT_PIN -> int_pin
          [] OTHER -> 0]

\* util::num_ops::le_read_u32 on the image: the four bytes from offset on,
\* least significant first
le_read_u32(config, offset) ==
    <<config[offset], config[offset + 1], config[offset + 2], config[offset + 3]>>

\* VfioPciDevice::pci_config_reset: COMMAND loses IO, MEMORY, BUS_MASTER (low
\* byte, 0x07) and INTERRUPT_DISABLE (high byte, 0x04); every BAR keeps its
\* type bits (0x3 for I/O, 0xf for memory) and loses its base address
pci_config_reset(config) ==
    [o \in DOMAIN config |->
        IF o = COMMAND THEN BitAnd(config[o], 248, 8)
        ELSE IF o = COMMAND + 1 THEN BitAnd(config[o], 251, 8)
        ELSE IF o >= BAR_0 /\ o < BAR_5 + REG_SIZE
        THEN IF (o - BAR_0) % REG_SIZE # 0 THEN 0
             ELSE IF config[o] % 2 = 1 THEN BitAnd(config[o], 3, 8)
             ELSE BitAnd(config[o], 15, 8)
        ELSE config[o]]

\* the write mask of the header: init_common_write_mask (COMMAND 0x0547,
\* cache line size, interrupt line) and register_bars for the BAR of the given
\* size (its base address bits)
WriteMask(o, bar_size) ==
    CASE o = COMMAND -> 71 [] o = COMMAND + 1 -> 5 [] o = 12 -> 255 [] o = 60 -> 255
      [] o >= BAR_0 /\ o < BAR_0 + REG_SIZE ->
            255 - (((bar_size - 1) \div (256 ^ (o - BAR_0))) % 256)
      [] OTHER -> 0

\* the base address held by BAR 0 of the image
bar_address(config) ==
    [le_read_u32(config, BAR_0) EXCEPT ![1] = @ - (@ % 16)]

\* VfioPciDevice::new: PciConfig::new(PCIE_CONFIG_SPACE_SIZE, PCI_NUM_BARS)
\* allocates the image and both masks at the PCIe size; config_size is 0
VfioConstructed(hw) ==
    [stage |-> "new", hw |-> hw, msix_info |-> NoMsixInfo, mmaps |-> <<>>,
     enable |-> FALSE, func_mask |-> FALSE, routes |-> {}, log |-> <<>>,
     first |-> {}, writes |-> 0, last |-> NoWrite,
     config_size |-> 0, config_len |-> PCIE_CONFIG_SPACE_SIZE,
     write_mask_len |-> PCIE_CONFIG_SPACE_SIZE,
     write_clear_mask_len |-> PCIE_CONFIG_SPACE_SIZE,
     config |-> [o \in 0..(PCI_CONFIG_HEAD_END - 1) |-> 0],
     bar_map |-> <<0, 0, 0, 0>>, reads |-> 0, rd |-> NoRead]

\* VfioPciDevice::get_pci_config: config_size is the size of the VFIO config
\* region; a buffer of that size is read from the host device and becomes the
\* image (self.pci_config.config = config_data)
get_pci_config(v) ==
    [v EXCEPT !.stage = "read", !.config_size = v.hw.config_size,
              !.config_len = v.hw.config_size, !.config = v.hw.header]

\* pci_config_reset on the device: the image is reset and the two bytes of the
\* new COMMAND go to the real device with write_region
reset_written(v) ==
    LET c == pci_config_reset(v.config) IN
    [v EXCEPT !.config = c,
              !.hw.header = [@ EXCEPT ![COMMAND] = c[COMMAND],
                                      ![COMMAND + 1] = c[COMMAND + 1]]]

\* VfioPciDevice::new on the host device hw, after get_pci_config and
\* pci_config_reset
VfioDev(hw) ==
    reset_written([get_pci_config(VfioConstructed(hw)) EXCEPT !.stage = "config"])

\* the device of the carve example: BAR size 0x4000, table at 0x1000, page 0x1000
ExampleHw(entries) ==
    [size |-> 16384, mmaps |-> <<MmapInfo(0, 16384)>>, table_offset |-> 4096,
     ctrl |-> entries - 1, page_size |-> 4096, cap |-> MsixCapOffset,
     config_size |-> VFIO_CONFIG_SIZE, header |-> HostHeader(7, 114, 128, 1)]
VfioNew == VfioDev(ExampleHw(8))

\* realize: self.get_pci_config()
realize_get_pci_config ==
    /\ vfio.stage = "new"
    /\ vfio' = get_pci_config(vfio)
    /\ UNCHANGED <<mmVars, devVars, loopVars, hVars, qVars, envVars>>

\* realize: self.pci_config_reset()
realize_pci_config_reset ==
    /\ vfio.stage = "read"
    /\ vfio' = reset_written([vfio EXCEPT !.stage = "config"])
    /\ UNCHANGED <<mmVars, devVars, loopVars, hVars, qVars, envVars>>

\* realize: self.msix_info = Some(self.get_msix_info()?)
realize_msix_info ==
    /\ vfio.stage = "config"
    /\ vfio' = [vfio EXCEPT !.stage = "msix", !.msix_info = get_msix_info(vfio.hw)]
    /\ UNCHANGED <<mmVars, devVars, loopVars, hVars, qVars, envVars>>

\* VfioPciDevice::bar_region_info for the BAR that holds the table
bar_region_info ==
    /\ vfio.stage = "msix"
    /\ vfio' = [vfio EXCEPT
                  !.stage = "bars",
                  !.mmaps = fixup_msix_region([size |-> vfio.hw.size,
                                               mmaps |-> vfio.hw.mmaps],
                                              vfio.msix_info, vfio.hw.page_size)]
    /\ UNCHANGED <<mmVars, devVars, loopVars, hVars, qVars, envVars>>

\* pci::ranges_overlap
ranges_overlap(start, end, range_start, range_end) ==
    ~(start >= range_end \/ range_start >= end)

\* PciConfig::write: each byte of the header takes the incoming bits its write
\* mask lets through (no write-clear bit of the header is set in the modelled
\* images); of the MSI-X message control only the high byte holds writable
\* bits (enable 0x80, function mask 0x40)
pci_config_write(v, offset, data) ==
    LET i == v.hw.cap + MSIX_CAP_CONTROL + 1 - offset
        byte(o) ==
            IF o >= offset /\ o < offset + Len(data)
            THEN LET m == WriteMask(o, v.hw.size) IN
                 BitAnd(v.config[o], 255 - m, 8) + BitAnd(data[o - offset + 1], m, 8)
            ELSE v.config[o]
        c == [v EXCEPT !.config = [o \in DOMAIN v.config |-> byte(o)]]
    IN
    IF i >= 0 /\ i < Len(data)
    THEN [c EXCEPT !.enable = (data[i + 1] \div 128) % 2 = 1,
                   !.func_mask = (data[i + 1] \div 64) % 2 = 1]
    ELSE c

\* the lowest GSI no route uses
free_gsi(routes) == CHOOSE g \in 0..Cardinality(routes) : \A r \in routes : r.gsi # g

\* vfio_enable_msix: one route per vector that has none, each on a free GSI
RECURSIVE alloc_routes(_, _, _)
alloc_routes(routes, vector, enteries) ==
    IF vector >= enteries THEN routes
    ELSE IF \E r \in routes : r.vector = vector
         THEN alloc_routes(routes, vector + 1, enteries)
         ELSE alloc_routes(routes \cup {[vector |-> vector, gsi |-> free_gsi(routes)]},
                           vector + 1, enteries)

vfio_enable_msix(v, ok) ==
    IF ok
    THEN LET rs == alloc_routes(v.routes, 0, v.msix_info.enteries) IN
         [v EXCEPT !.routes = rs, !.log = Append(@, "enable"),
                   !.first = IF @ = {} THEN rs ELSE @]
    ELSE v

\* vfio_disable_msix: every route is torn down
vfio_disable_msix(v, ok) ==
    IF ok THEN [v EXCEPT !.routes = {}, !.log = Append(@, "disable")] ELSE v

\* a slip: MSI-X is enabled whenever the enable bit is set after the write
msix_transition_level(was_enable, is_enable) ==
    IF is_enable THEN "enable"
    ELSE IF was_enable /\ ~is_enable THEN "disable"
    ELSE "none"

\* write_config, vfio_pci.rs:440-452: which of the two is called
msix_transition(was_enable, is_enable) ==
    IF ~was_enable /\ is_enable THEN "enable"
    ELSE IF was_enable /\ ~is_enable THEN "disable"
    ELSE "none"

\* the reads of one behaviour
MaxCfgReads == 2

\* the byte the device fd returns at offset o of the config region: the header
\* the device reports, and past it a pattern
host_byte(hw, o) == IF o < PCI_CONFIG_HEAD_END THEN hw.header[o] ELSE (3 * o) % 256

\* PciConfig::read: size bytes of the image from offset on
pci_config_read(config, offset, size) == [i \in 1..size |-> config[offset + i - 1]]

\* a slip: the two registers are masked only in a read that starts at them
intercept_first_byte(offset, i, b) ==
    IF offset = INTERRUPT_PIN THEN 0
    ELSE IF offset = HEADER_TYPE THEN BitAnd(b, 127, 8)
    ELSE b

\* read_config, vfio_pci.rs:365-373: byte i of a read at offset; INTx pin is
\* cleared and the multi-function bit of the header type is cleared
intercept(offset, i, b) ==
    IF i + offset = INTERRUPT_PIN THEN 0
    ELSE IF i + offset = HEADER_TYPE THEN BitAnd(b, 127, 8)
    ELSE b

\* PciConfig::update_bar_mapping: the prior region is unmapped and the BAR is
\* mapped at the base address the image holds
update_bar_mapping(v) == [v EXCEPT !.bar_map = bar_address(v.config)]

\* a slip: the image is stored before the host write is known to have worked
after_write_region_stored(v, w, region_ok) == w

\* write_config, vfio_pci.rs:388-395: the write goes to the device fd first; if
\* that fails the handler returns with the emulated state v, else it goes on
\* to PciConfig::write, whose result is w
after_write_region(v, w, region_ok) == IF region_ok THEN w ELSE v

\* the steps of a BAR remap that can fail
BarOutcomes == {"ok", "update_bar_mapping", "setup_bars_mmap"}

\* VfioPciDevice::write_config; region_ok: the write to the device fd worked,
\* irq_ok: vfio_enable_msix / vfio_disable_msix worked, bar_ok: the step of the
\* BAR remap that fails, if any
vfio_write_config(offset, data, region_ok, irq_ok, bar_ok) ==
    LET size == Len(data)
        end == offset + size
        cap_offset == vfio.hw.cap
        note(v, branch, call, ok, remap, mmap) ==
            [v EXCEPT !.writes = @ + 1,
                      !.last = [offset |-> offset, size |-> size, branch |-> branch,
                                call |-> call, ok |-> ok, sent |-> branch # "rejected",
                                remap |-> remap, mmap |-> mmap]]
        w == pci_config_write(vfio, offset, data)
        mapped == update_bar_mapping(w)
    IN
    /\ vfio.stage = "bars" /\ vfio.writes < MaxCfgWrites
    /\ vfio' =
         IF end > vfio.config_size \/ size > 4
         THEN note(vfio, "rejected", "none", FALSE, FALSE, FALSE)
         ELSE IF ~region_ok
         THEN note(after_write_region(vfio, w, FALSE), "failed", "none", FALSE, FALSE, FALSE)
         ELSE IF ranges_overlap(offset, end, COMMAND, COMMAND + 4)
              THEN IF BitAnd(le_read_u32(w.config, offset)[1], COMMAND_MEMORY_SPACE, 8) # 0
                   THEN IF bar_ok = "update_bar_mapping"
                        THEN note(w, "command", "none", FALSE, FALSE, FALSE)
                        ELSE IF bar_ok = "setup_bars_mmap"
                        THEN note(mapped, "command", "none", FALSE, TRUE, FALSE)
                        ELSE note(mapped, "command", "none", TRUE, TRUE, TRUE)
                   ELSE note(w, "command", "none", TRUE, FALSE, FALSE)
         ELSE IF ranges_overlap(offset, end, BAR_0, BAR_5 + REG_SIZE)
              THEN IF size = 4 /\ data # <<255, 255, 255, 255>>
                   THEN IF bar_ok = "update_bar_mapping"
                        THEN note(w, "bar", "none", FALSE, FALSE, FALSE)
                        ELSE note(mapped, "bar", "none", TRUE, TRUE, FALSE)
                   ELSE note(w, "bar", "none", TRUE, FALSE, FALSE)
         ELSE IF ranges_overlap(offset, end, cap_offset, cap_offset + MSIX_CAP_SIZE)
              THEN LET call == msix_transition(vfio.enable, w.enable) IN
                   IF call = "enable"
                   THEN note(vfio_enable_msix(w, irq_ok), "msix", call, irq_ok, FALSE, FALSE)
                   ELSE IF call = "disable"
                        THEN note(vfio_disable_msix(w, irq_ok), "msix", call, irq_ok,
                                  FALSE, FALSE)
                   ELSE note(w, "msix", call, TRUE, FALSE, FALSE)
         ELSE note(w, "plain", "none", TRUE, FALSE, FALSE)
    /\ UNCHANGED <<mmVars, devVars, loopVars, hVars, qVars, envVars>>

(***************************************************************************)
(* Machine manager: the balloon device configuration (config/balloon.rs)    *)
(* and the MachineLifecycle trait (machine.rs). CmdParser, pci_args_check   *)
(* and check_arg_too_long are not in the sources: an option the command     *)
(* line does not give is the empty set, one it gives is a singleton, and    *)
(* args_ok tells whether the command line parses.                           *)
(***************************************************************************)
MEM_BUFFER_PERCENT_MIN == 20
MEM_BUFFER_PERCENT_MAX == 80
MEM_BUFFER_PERCENT_DEFAULT == 50
MONITOR_INTERVAL_SECOND_MIN == 5
MONITOR_INTERVAL_SECOND_MAX == 300
MONITOR_INTERVAL_SECOND_DEFAULT == 10

\* the parse_balloon and the lifecycle calls of one behaviour
MaxParse == 3
MaxLifecycle == 4

\* Option::unwrap_or on an option of the command line
value_or(option, default) == IF option = {} THEN default ELSE CHOOSE x \in option : TRUE

\* a slip: the bounds themselves are rejected too
check_exclusive(balloon) ==
    IF balloon.id_len > 255 THEN "StringLengthTooLong"
    ELSE IF ~balloon.auto_balloon THEN "Ok"
    ELSE IF balloon.membuf_percent >= MEM_BUFFER_PERCENT_MAX
            \/ balloon.membuf_percent <= MEM_BUFFER_PERCENT_MIN
    THEN "IllegalValue"
    ELSE IF balloon.monitor_interval >= MONITOR_INTERVAL_SECOND_MAX
            \/ balloon.monitor_interval <= MONITOR_INTERVAL_SECOND_MIN
    THEN "IllegalValue"
    ELSE "Ok"

\* BalloonConfig::check; check_arg_too_long rejects an id of more than 255 bytes
check(balloon) ==
    IF balloon.id_len > 255 THEN "StringLengthTooLong"
    ELSE IF ~balloon.auto_balloon THEN "Ok"
    ELSE IF balloon.membuf_percent > MEM_BUFFER_PERCENT_MAX
            \/ balloon.membuf_percent < MEM_BUFFER_PERCENT_MIN
    THEN "IllegalValue"
    ELSE IF balloon.monitor_interval > MONITOR_INTERVAL_SECOND_MAX
            \/ balloon.monitor_interval < MONITOR_INTERVAL_SECOND_MIN
    THEN "IllegalValue"
    ELSE "Ok"

\* a slip: the VM is marked before the configuration is checked
insert_before_check(dev_name, res) ==
    IF res = "OnlyOneBalloon" THEN dev_name ELSE dev_name \cup {"balloon"}

\* parse_balloon, balloon.rs:112-114: vm_config.dev_name.insert("balloon", 1)
\* is reached only when every step before it returned Ok
insert_after_check(dev_name, res) ==
    IF res = "Ok" THEN dev_name \cup {"balloon"} ELSE dev_name

NoBalloon ==
    [id_len |-> 0, deflate_on_oom |-> FALSE, free_page_reporting |-> FALSE,
     auto_balloon |-> FALSE, membuf_percent |-> 0, monitor_interval |-> 0]
NoOpts ==
    [args_ok |-> TRUE, id_len |-> 0, deflate_on_oom |-> {}, free_page_reporting |-> {},
     auto_balloon |-> {}, membuf_percent |-> {}, monitor_interval |-> {}]
VmConfigNew ==
    [dev_name |-> {}, calls |-> 0, parsed |-> 0,
     last |-> [opts |-> NoOpts, res |-> "none", balloon |-> NoBalloon, had |-> FALSE]]

\* config::parse_balloon
parse_balloon(opts) ==
    LET balloon ==
            [id_len |-> opts.id_len,
             deflate_on_oom |-> value_or(opts.deflate_on_oom, FALSE),
             free_page_reporting |-> value_or(opts.free_page_reporting, FALSE),
             auto_balloon |-> value_or(opts.auto_balloon, FALSE),
             membuf_percent |-> value_or(opts.membuf_percent, MEM_BUFFER_PERCENT_DEFAULT),
             monitor_interval |->
                 value_or(opts.monitor_interval, MONITOR_INTERVAL_SECOND_DEFAULT)]
        had == "balloon" \in vm_config.dev_name
        res == IF had THEN "OnlyOneBalloon"
               ELSE IF ~opts.args_ok THEN "ParseError"
               ELSE check(balloon)
    IN
    /\ vm_config.calls < MaxParse
    /\ vm_config' =
         [dev_name |-> insert_after_check(vm_config.dev_name, res),
          calls |-> vm_config.calls + 1,
          parsed |-> vm_config.parsed + (IF res = "Ok" THEN 1 ELSE 0),
          last |-> [opts |-> opts, res |-> res,
                    balloon |-> IF res = "Ok" THEN balloon ELSE NoBalloon,
                    had |-> had]]
    /\ UNCHANGED <<machine, vfioVars, devVars, loopVars, hVars, qVars, envVars>>

\* KvmVmState
KvmVmState == {"Created", "Running", "InMigrating", "Migrated", "Paused", "Shutdown"}
MachineNew == [state |-> "Created", log |-> <<>>]

\* MachineLifecycle::notify_lifecycle, as its implementors do it: the
\* transition is made if the machine is in state old, and refused otherwise
notify_lifecycle(op, old, new) ==
    LET ok == machine.state = old IN
    /\ Len(machine.log) < MaxLifecycle
    /\ machine' =
         [state |-> IF ok THEN new ELSE machine.state,
          log |-> Append(machine.log,
                         [op |-> op, was |-> machine.state, old |-> old, new |-> new,
                          ok |-> ok])]
    /\ UNCHANGED <<vm_config, vfioVars, devVars, loopVars, hVars, qVars, envVars>>

\* MachineLifecycle::start, pause, resume, destroy
start == notify_lifecycle("start", "Created", "Paused")
pause == notify_lifecycle("pause", "Running", "Paused")
resume == notify_lifecycle("resume", "Paused", "Running")
destroy == notify_lifecycle("destroy", "Running", "Shutdown")

(***************************************************************************)
(* Initial states.                                                         *)
(***************************************************************************)
InitHist == [deact_returned |-> FALSE, cb_after_deact |-> FALSE, failed |-> {}]

InitEnv ==
    /\ rxq = [i \in Pairs |-> EmptyQueue]
    /\ txq = [i \in Pairs |-> EmptyQueue]
    /\ ctrlq = EmptyCtrlQueue
    /\ host = [i \in Pairs |-> InitHost]
    /\ needs_reset = FALSE
    /\ hist = InitHist
    /\ vm_config = VmConfigNew
    /\ machine = MachineNew
    /\ signaled = {}
    /\ run = IdleRun
    /\ updates = 0

\* Net::new(cfg)
NetNew(cfg) ==
    /\ InitEnv
    /\ net_cfg = cfg
    /\ device_features = {} /\ driver_features = {}
    /\ taps = NoneVec /\ senders = NoneVec
    /\ realized = 0 /\ gen = 0
    /\ lifecycle = "Uninit"
    /\ config_space = DefaultConfigSpace /\ cfg_io = NoCfgIo /\ offload = EmptyFn
    /\ notifiers = EmptyFn /\ ready = {} /\ edge = {} /\ loop_fault = {}
    /\ io = EmptyFn /\ ctrl = {} /\ chan = EmptyFn

\* a machine with a net device and a passthrough device, both just constructed
Constructed(cfg) == NetNew(cfg) /\ vfio = VfioNew

\* Net::new(cfg), realize, the driver negotiates drv, activate
Activated(cfg, drv) ==
    /\ InitEnv
    /\ vfio = VfioNew
    /\ net_cfg = cfg
    /\ device_features = realize_features(cfg)
    /\ driver_features = drv
    /\ taps = create_tap(cfg, 0)
    /\ realized = 1 /\ gen = 1
    /\ lifecycle = "Activated"
    /\ config_space = realize_config(DefaultConfigSpace, cfg) /\ cfg_io = NoCfgIo
    /\ LET a == activation(cfg, drv, create_tap(cfg, 0), 1)
           s == update_events(EmptyRegistry, a.ops, [i \in Pairs |-> InitHost])
       IN /\ io = a.io /\ chan = a.chan /\ ctrl = a.ctrl /\ senders = a.senders
          /\ offload = a.offload
          /\ notifiers = s.n /\ edge = s.e /\ ready = s.r /\ loop_fault = s.f

Cfgs == [mq : BOOLEAN, queues : {2, 4}, mac : {"none", "ok", "bad"}, host_dev : BOOLEAN]

(***************************************************************************)
(* Specifications.                                                         *)
(***************************************************************************)
CtrlHandlers == {<<g, 0>> : g \in ctrl}

CtrlCallbacks ==
    \E fd \in DOMAIN notifiers : \E h \in CtrlHandlers :
        \/ CtrlCb(fd, h)
        \/ CtrlDeactCb(fd, h)

\* the 32-bit words the guest writes as driver features: bit 0 and bit 17 are
\* offered on some page of some configuration, bit 3 on none
GuestValues == SUBSET {VIRTIO_NET_F_CSUM, 3, VIRTIO_NET_F_CTRL_VQ}

\* the control plane of the device: the calls of the transport (vCPU thread)
InitDev == \E cfg \in Cfgs : Constructed(cfg)
NextDev ==
    \/ realize
    \/ \E page \in {0, 1, 2} : \E value \in GuestValues : set_driver_features(page, value)
    \/ activate
    \/ deactivate
    \/ unrealize
SpecDev == InitDev /\ [][NextDev]_vars

\* one queue pair, no control queue: the receive path of a NetIoHandler
IoCfg == [mq |-> FALSE, queues |-> 2, mac |-> "none", host_dev |-> TRUE]
InitIo == Activated(IoCfg, {VIRTIO_F_VERSION_1})
RxCallbacks ==
    \E fd \in DOMAIN notifiers : \E h \in DOMAIN io :
        \/ RxKickCb(fd, h)
        \/ TapCb(fd, h)
        \/ UpdateCb(fd, h)
        \/ DeactCb(fd, h)
NextRx ==
    \/ \E i \in Pairs : \E c \in DataChains : GuestPostRx(i, c)
    \/ \E i \in ActivePairs : GuestKick(<<"rx", i>>)
    \/ \E i \in Pairs : TapArrive(i)
    \/ \E i \in Pairs : \E st \in {"fault", "gone"} : TapFail(i, st)
    \/ update_config([net_cfg EXCEPT !.host_dev = TRUE])
    \/ update_config(DefaultCfg)
    \/ deactivate
    \/ Wait
    \/ RxCallbacks
SpecRx == InitIo /\ [][NextRx]_vars

\* one queue pair, no control queue: the transmit path of a NetIoHandler
TxCallbacks ==
    \E fd \in DOMAIN notifiers : \E h \in DOMAIN io :
        \/ TxKickCb(fd, h)
        \/ DeactCb(fd, h)
NextTx ==
    \/ \E i \in Pairs : \E c \in DataChains : GuestPostTx(i, c)
    \/ \E i \in ActivePairs : GuestKick(<<"tx", i>>)
    \/ \E i \in Pairs : TapTxDrain(i)
    \/ deactivate
    \/ Wait
    \/ TxCallbacks
SpecTx == InitIo /\ [][NextTx]_vars

\* the receive path while the tap and the guest behave: packets arrive, the
\* guest posts well-formed chains and kicks; the I/O thread keeps running
FlowCallbacks ==
    \E fd \in DOMAIN notifiers : \E h \in DOMAIN io :
        \/ RxKickCb(fd, h)
        \/ TapCb(fd, h)
LoopRxFlow == Wait \/ FlowCallbacks
NextRxFlow ==
    \/ \E i \in Pairs : GuestPostRx(i, [kind |-> "ok"])
    \/ \E i \in ActivePairs : GuestKick(<<"rx", i>>)
    \/ \E i \in Pairs : TapArrive(i)
    \/ Wait
    \/ FlowCallbacks
SpecRxFlow == InitIo /\ [][NextRxFlow]_vars /\ WF_vars(LoopRxFlow)

\* the receive path with interrupt suppression: the driver negotiated
\* RING_EVENT_IDX or not, posts chains (well-formed or not), suppresses and
\* unsuppresses interrupts; packets arrive and the tap may start failing
InitRxIrq ==
    \E drv \in {{VIRTIO_F_VERSION_1}, {VIRTIO_F_VERSION_1, VIRTIO_F_RING_EVENT_IDX}} :
        Activated(IoCfg, drv)
NextRxIrq ==
    \/ \E i \in Pairs : \E c \in DataChains : GuestPostRx(i, c)
    \/ \E i \in Pairs : \E f \in BOOLEAN : \E ev \in 0..MaxRxPost : GuestSuppress(i, f, ev)
    \/ \E i \in ActivePairs : GuestKick(<<"rx", i>>)
    \/ \E i \in Pairs : TapArrive(i)
    \/ \E i \in Pairs : \E st \in {"fault", "gone"} : TapFail(i, st)
    \/ Wait
    \/ FlowCallbacks
SpecRxIrq == InitRxIrq /\ [][NextRxIrq]_vars

\* one queue pair and the control queue: the NetCtrlHandler
CtrlCfg == [mq |-> TRUE, queues |-> 2, mac |-> "none", host_dev |-> TRUE]
MqFeatures == {VIRTIO_F_VERSION_1, VIRTIO_NET_F_CTRL_VQ, VIRTIO_NET_F_MQ}
InitCtrl == Activated(CtrlCfg, MqFeatures)
NextCtrl ==
    \/ \E c \in CtrlReqs : GuestPostCtrl(c)
    \/ GuestKick(<<"ctrl", 0>>)
    \/ Wait
    \/ CtrlCallbacks
    \/ \E fd \in DOMAIN notifiers : \E h \in DOMAIN io : DeactCb(fd, h)
SpecCtrl == InitCtrl /\ [][NextCtrl]_vars

\* two queue pairs and the control queue: deactivation of all handlers
MqCfg == [mq |-> TRUE, queues |-> 4, mac |-> "none", host_dev |-> TRUE]
InitDeact == Activated(MqCfg, MqFeatures)
DeactCallbacks ==
    \/ \E fd \in DOMAIN notifiers : \E h \in DOMAIN io :
          \/ RxKickCb(fd, h)
          \/ UpdateCb(fd, h)
          \/ DeactCb(fd, h)
    \/ CtrlCallbacks
LoopDeact == Wait \/ DeactCallbacks
NextDeact ==
    \/ \E i \in ActivePairs : GuestKick(<<"rx", i>>)
    \/ GuestKick(<<"ctrl", 0>>)
    \/ update_config(net_cfg)
    \/ deactivate
    \/ Wait
    \/ DeactCallbacks
SpecDeact == InitDeact /\ [][NextDeact]_vars
SpecDeactFair == SpecDeact /\ WF_vars(LoopDeact)

\* one queue pair: the transport deactivates the device and activates it
\* again (a guest driver reset followed by DRIVER_OK) while the I/O thread
\* serves the handlers
ReactCallbacks ==
    \E fd \in DOMAIN notifiers : \E h \in DOMAIN io :
        \/ RxKickCb(fd, h)
        \/ DeactCb(fd, h)
NextReact ==
    \/ \E i \in ActivePairs : GuestKick(<<"rx", i>>)
    \/ deactivate
    \/ lifecycle = "Deactivated" /\ activate
    \/ Wait
    \/ ReactCallbacks
SpecReact == InitIo /\ [][NextReact]_vars

\* one queue pair: hot reconfigurations that follow each other (the tap is
\* replaced, or removed with the default configuration) while the I/O thread
\* serves the handler; realized counts the realize calls, the first of which
\* came before activation
UpdateCallbacks ==
    \E fd \in DOMAIN notifiers : \E h \in DOMAIN io :
        \/ RxKickCb(fd, h)
        \/ TapCb(fd, h)
        \/ UpdateCb(fd, h)
NextUpdate ==
    \/ \E conf \in {[net_cfg EXCEPT !.host_dev = TRUE], DefaultCfg} :
          realized <= MaxCoalesced /\ Net_update_config(conf) /\ UNCHANGED updates
    \/ \E i \in ActivePairs : GuestKick(<<"rx", i>>)
    \/ \E i \in Pairs : TapArrive(i)
    \/ Wait
    \/ UpdateCallbacks
SpecUpdate == InitIo /\ [][NextUpdate]_vars

\* the config space: realize, negotiation, activation, guest reads and writes
ConfigCfgs == [mq : {TRUE}, queues : {2}, mac : {"none", "ok"}, host_dev : {FALSE}]
\* vec![b; n]
Fill(b, n) == [i \in 1..n |-> b]
ConfigOffsets == {0, 1, CONFIG_LEN - 1, CONFIG_LEN}
WriteData == {Fill(7, n) : n \in {1, MAC_ADDR_LEN, CONFIG_LEN}}
ReadBufs == {Fill(170, n) : n \in {1, CONFIG_LEN}}
InitConfig == \E cfg \in ConfigCfgs : Constructed(cfg)
NextConfig ==
    \/ realize
    \/ \E value \in {{}, {0}} : set_driver_features(1, value)
    \/ activate
    \/ deactivate
    \/ \E offset \in ConfigOffsets : \E data \in WriteData : write_config(offset, data)
    \/ \E offset \in ConfigOffsets : \E data \in ReadBufs : read_config(offset, data)
SpecConfig == InitConfig /\ [][NextConfig]_vars

\* realize of a passthrough device: the host devices differ in the size of the
\* table BAR, the mmap list VFIO reports for it, the table position and size
\* their MSI-X capability reports (get_msix_info takes both as they are read,
\* so the table may end or even start beyond the end of its BAR), and the
\* host page size
BarSizes == {4096, 8192, 16384, 65536}
PageSizes == {4096, 65536}
TableOffsets == {0, 2048, 4096, 8192, 12288}
TableCtrls == {0, 7, 255, 511}
\* the whole BAR, nothing, a part of it, or sparse areas; every area is made
\* of whole host pages
Layouts(size, page_size) ==
    {m \in {<<MmapInfo(0, size)>>, <<>>,
             <<MmapInfo(0, size \div 2)>>, <<MmapInfo(size \div 2, size \div 2)>>,
             <<MmapInfo(0, size \div 2), MmapInfo(size \div 2, size \div 2)>>} :
        \A i \in 1..Len(m) : m[i].offset % page_size = 0 /\ m[i].size % page_size = 0}
\* a conventional PCI function or a PCIe one
ConfigSizes == {VFIO_CONFIG_SIZE, PCIE_CONFIG_SPACE_SIZE}
\* the header of a device whose table BAR is a 64-bit prefetchable memory BAR:
\* BAR 0 holds the type bits 0xc and the low half of the host address, BAR 1
\* the high half (the BAR lies above 4 GiB when it is not 0)
HostHeader64(upper) ==
    [HostHeader(7, 114, 128, 1) EXCEPT ![BAR_0] = 12, ![BAR_0 + REG_SIZE] = upper]
HostHeaders == {HostHeader(7, 114, 128, 1)} \cup {HostHeader64(u) : u \in {0, 5, 6}}
HostDevices ==
    UNION {{[size |-> q[1], mmaps |-> m, table_offset |-> q[2], ctrl |-> q[3],
             page_size |-> q[4], cap |-> MsixCapOffset, config_size |-> cs,
             header |-> hd] :
                m \in Layouts(q[1], q[4]), cs \in ConfigSizes, hd \in HostHeaders} :
           q \in BarSizes \X TableOffsets \X TableCtrls \X PageSizes}
InitVfioBars == NetNew(DefaultCfg) /\ \E hw \in HostDevices : vfio = VfioConstructed(hw)
NextVfioBars ==
    \/ realize_get_pci_config
    \/ realize_pci_config_reset
    \/ realize_msix_info
    \/ bar_region_info
SpecVfioBars == InitVfioBars /\ [][NextVfioBars]_vars

\* guest writes to the config space of a realized passthrough device
Realized(hw) ==
    [VfioDev(hw) EXCEPT
        !.stage = "bars",
        !.msix_info = get_msix_info(hw),
        !.mmaps = fixup_msix_region([size |-> hw.size, mmaps |-> hw.mmaps],
                                    get_msix_info(hw), hw.page_size)]
CfgWriteOffsets ==
    {COMMAND, BAR_0, MsixCapOffset, MsixCapOffset + MSIX_CAP_CONTROL,
     MsixCapOffset + MSIX_CAP_CONTROL + 1, MsixCapOffset + MSIX_CAP_SIZE}
\* 1, 2, 4 and 5 bytes; the last byte carries the enable and function mask bits
CfgWriteData ==
    UNION {{<<b>>, <<0, b>>, <<0, 0, 0, b>>, <<0, 0, 0, 0, b>>} : b \in {0, 128, 192}}
InitVfioMsix == NetNew(DefaultCfg) /\ vfio = Realized(ExampleHw(MaxVectors))
NextVfioMsix ==
    \E offset \in CfgWriteOffsets : \E data \in CfgWriteData :
        \E region_ok \in BOOLEAN : \E irq_ok \in BOOLEAN :
            vfio_write_config(offset, data, region_ok, irq_ok, "ok")
SpecVfioMsix == InitVfioMsix /\ [][NextVfioMsix]_vars

\* guest reads of the config space of a realized passthrough device
vfio_read_config(offset, buf, region_ok) ==
    LET size == Len(buf)
        end == offset + size
        done(out, from) ==
            [vfio EXCEPT !.reads = @ + 1,
                         !.rd = [offset |-> offset, buf |-> buf, out |-> out, from |-> from]]
    IN
    /\ vfio.stage = "bars" /\ vfio.reads < MaxCfgReads
    /\ vfio' =
         IF end > vfio.config_size \/ size > 4 THEN done(buf, "rejected")
         ELSE IF offset >= BAR_0 /\ offset < BAR_5 + REG_SIZE
              THEN done(pci_config_read(vfio.config, offset, size), "image")
         ELSE IF ~region_ok THEN done(buf, "failed")
         ELSE done([i \in 1..size |->
                        intercept(offset, i - 1, host_byte(vfio.hw, offset + i - 1))],
                   "host")
    /\ UNCHANGED <<mmVars, devVars, loopVars, hVars, qVars, envVars>>

\* guest reads of the header, the BARs, the capability and the end of the
\* region, of 1, 2, 4 and 5 bytes, from devices that report a multi-function
\* header type and an interrupt pin or not, and whose BAR 0 the host placed at
\* 0xfe000000 or at 0xfe004000
ReadHosts ==
    {[ExampleHw(MaxVectors) EXCEPT
         !.header = [HostHeader(7, 114, ht, pin) EXCEPT ![BAR_0 + 1] = b1]] :
        ht \in {0, 128, 129}, pin \in {0, 1, 255}, b1 \in {0, 64}}
ReadOffsets ==
    {12, 13, HEADER_TYPE, BAR_0, BAR_5 + 2, 58, 60, INTERRUPT_PIN, MsixCapOffset,
     VFIO_CONFIG_SIZE - 2}
VfioReadBufs == {Fill(170, n) : n \in {1, 2, 4, 5}}
InitVfioRead == NetNew(DefaultCfg) /\ \E hw \in ReadHosts : vfio = Realized(hw)
NextVfioRead ==
    \E offset \in ReadOffsets : \E buf \in VfioReadBufs : \E region_ok \in BOOLEAN :
        vfio_read_config(offset, buf, region_ok)
SpecVfioRead == InitVfioRead /\ [][NextVfioRead]_vars

\* guest writes to the COMMAND and BAR registers of a realized passthrough
\* device: byte, word and dword writes, aligned or not, the all-ones sizing
\* probe and an oversized write; the last offset lies at the end of the region
HeaderWriteOffsets == {2, COMMAND, COMMAND + 1, BAR_0, BAR_0 + 2, VFIO_CONFIG_SIZE - 2}
HeaderWriteData ==
    {<<0>>, <<2>>, <<0, 253>>, <<0, 0, 2, 0>>, <<0, 0, 0, 253>>,
     <<255, 255, 255, 255>>, <<0, 0, 0, 0, 0>>}
InitVfioHeader == NetNew(DefaultCfg) /\ vfio = Realized(ExampleHw(MaxVectors))
NextVfioHeader ==
    \E offset \in HeaderWriteOffsets : \E data \in HeaderWriteData :
        \E region_ok \in BOOLEAN : \E bar_ok \in BarOutcomes :
            vfio_write_config(offset, data, region_ok, TRUE, bar_ok)
SpecVfioHeader == InitVfioHeader /\ [][NextVfioHeader]_vars

\* the balloon options of a VM's command line: every combination of the
\* auto-balloon switch with values at, next to and between the bounds, and
\* command lines that do not parse, carry a long id or set the other switches
BalloonOpts ==
    {[NoOpts EXCEPT !.id_len = 8, !.auto_balloon = a, !.membuf_percent = m,
                    !.monitor_interval = i] :
        a \in {{}, {TRUE}, {FALSE}},
        m \in {{}, {19}, {MEM_BUFFER_PERCENT_MIN}, {MEM_BUFFER_PERCENT_MAX}, {81}},
        i \in {{}, {4}, {MONITOR_INTERVAL_SECOND_MIN}, {MONITOR_INTERVAL_SECOND_MAX}, {301}}}
    \cup {[NoOpts EXCEPT !.args_ok = FALSE],
          [NoOpts EXCEPT !.id_len = 256],
          [NoOpts EXCEPT !.id_len = 8, !.deflate_on_oom = {TRUE}],
          [NoOpts EXCEPT !.id_len = 8, !.free_page_reporting = {TRUE}]}
InitBalloon == Constructed(DefaultCfg)
NextBalloon == \E opts \in BalloonOpts : parse_balloon(opts)
SpecBalloon == InitBalloon /\ [][NextBalloon]_vars

\* the lifecycle calls of the control plane on a machine, in any order
InitLifecycle == Constructed(DefaultCfg)
NextLifecycle ==
    \/ start
    \/ pause
    \/ resume
    \/ destroy
SpecLifecycle == InitLifecycle /\ [][NextLifecycle]_vars

(***************************************************************************)
(* Properties.                                                             *)
(***************************************************************************)
\* C10: after any sequence of set_driver_features(page, value) calls,
\* driver_features & ~device_features == 0: no feature bit the device did not
\* offer is ever recorded as negotiated.
C10_DriverFeaturesOffered == driver_features \subseteq device_features

\* C10, its case: the guest has written both pages and features of both pages
\* are negotiated, but not all that the device offers
C10_BothPagesNegotiated ==
    /\ VIRTIO_NET_F_CSUM \in driver_features
    /\ VIRTIO_F_VERSION_1 \in driver_features
    /\ driver_features # device_features

\* C9: unrealize is rejected for a device that is Activated and has not first
\* been deactivated: no call takes the device from Activated to Uninit.
C9_UnrealizeRejectedWhileActivated ==
    [][lifecycle = "Activated" => lifecycle' # "Uninit"]_vars

\* every chain popped from q has been added to its used ring exactly once
\* (a chain pushed back is not popped: last_avail is rewound)
PoppedCompleted(q) ==
    /\ Len(q.used) = q.last_avail
    /\ \A j \in DOMAIN q.used : \A k \in DOMAIN q.used :
          q.used[j].id = q.used[k].id => j = k

\* C3: when handle_rx, handle_tx or handle_ctrl has returned (with Ok or with
\* an error), every chain it popped has been added to the used ring exactly
\* once or been pushed back; none is popped and dropped, none is used twice.
C3_PoppedUsedOnceOrPushedBack ==
    /\ \A i \in Pairs : PoppedCompleted(rxq[i]) /\ PoppedCompleted(txq[i])
    /\ PoppedCompleted(ctrlq)

\* C6: whenever a queue handler (rx, tx or ctrl) failed because pop_avail
\* rejected a chain or the request was malformed, the callback has reported a
\* virtio error (DEVICE_NEEDS_RESET is set).
C6_HandlerFailureReported ==
    (\E f \in hist.failed : f[2] \in {"pop", "req"}) => needs_reset

\* the command of a control request is accepted: class MQ, cmd VQ_PAIRS_SET
\* and a trailing queue-pair count in MIN..MAX
CtrlAccepted(req) ==
    /\ req.nout >= 2
    /\ req.class = VIRTIO_NET_CTRL_MQ
    /\ req.cmd = VIRTIO_NET_CTRL_MQ_VQ_PAIRS_SET
    /\ req.pairs \in VIRTIO_NET_CTRL_MQ_VQ_PAIRS_MIN..VIRTIO_NET_CTRL_MQ_VQ_PAIRS_MAX

\* C4: every control request the handler processed (one with a status buffer)
\* got exactly one status byte, OK or ERR, and ERR when its command is rejected
\* for its class, cmd or count, and was completed on the used ring.
C4_StatusByteAndUsed ==
    \A k \in 1..ctrlq.last_avail :
        ctrlq.avail[k].st =>
            /\ \E b \in {VIRTIO_NET_OK, VIRTIO_NET_ERR} :
                  /\ {a \in ctrlq.ack : a[1] = k} = {<<k, b>>}
                  /\ (ctrlq.avail[k].nout >= 2 /\ ~CtrlAccepted(ctrlq.avail[k]))
                       => b = VIRTIO_NET_ERR
            /\ \E j \in DOMAIN ctrlq.used : ctrlq.used[j].id = k

\* C5: handle_ctrl answers OK only for a request with class MQ, cmd
\* VQ_PAIRS_SET and a queue-pair count in 1..=0x8000; a request with no header
\* or no count descriptor is never answered OK.
C5_OkOnlyForValidMq ==
    \A a \in ctrlq.ack : a[2] = VIRTIO_NET_OK => CtrlAccepted(ctrlq.avail[a[1]])

\* C1: the rx queue-evt callback returns a Resume for the tap fd only while
\* that fd is parked: whenever the handler is not listening (the next rx kick
\* resumes its tap), its tap fd is registered and parked.
C1_ResumeOnlyWhileParked ==
    \A h \in DOMAIN io :
        (EvtFd("rx", h) \in DOMAIN notifiers /\ io[h].tap # NoTap /\ ~io[h].is_listening)
        => /\ TapFd(h[2], io[h].tap) \in DOMAIN notifiers
           /\ notifiers[TapFd(h[2], io[h].tap)].status = "Parked"

\* C8: once deactivate() has returned, no rx, tx, ctrl, tap or update callback
\* of the device still runs on the I/O thread.
C8_NoCallbackAfterDeactivate == ~hist.cb_after_deact

\* C7: after deactivate() every handler of the device eventually runs its
\* deactivate callback and the Delete batches remove every fd the device
\* registered; the read of the shared deactivate eventfd by one handler does
\* not keep the others registered.
C7_DeactivateDeletesAll == (lifecycle = "Deactivated") ~> (DOMAIN notifiers = {})

\* C7, its case: a device of two queue pairs and a control queue, reconfigured
\* and then deactivated, has no fd left
C7_AllHandlersDeleted ==
    /\ lifecycle = "Deactivated" /\ DOMAIN notifiers = {}
    /\ Cardinality(DOMAIN io) = 2 /\ ctrl # {}
    /\ updates > 0

Min(a, b) == IF a <= b THEN a ELSE b
\* the tap fd of queue pair 0 as activated
RxTap == TapFd(0, 0)
RxTapParked == RxTap \in DOMAIN notifiers /\ notifiers[RxTap].status = "Parked"
RxTapArmed == RxTap \in DOMAIN notifiers /\ notifiers[RxTap].status = "Alive"

\* C2: when the tap holds more packets than the N rx descriptors posted,
\* exactly N used entries are published and the tap fd is then Parked; once the
\* guest has posted more and kicked, the tap fd is eventually Resumed and the
\* remaining packets are delivered in arrival order, none lost, none twice.
C2_BackpressureDelivers ==
    /\ [](/\ \A k \in DOMAIN rxq[0].used : rxq[0].used[k] = [id |-> k, len |-> k]
          /\ Len(rxq[0].used) = host[0].rd)
    /\ [][(RxTapArmed /\ RxTapParked') => Len(rxq[0].used') = Len(rxq[0].avail')]_vars
    /\ \A k \in 1..Min(MaxRxPost, MaxPkts) :
          (/\ RxTapParked /\ <<"rx", 0>> \in signaled
           /\ avail_ring_len(rxq[0]) > 0
           /\ Min(Len(rxq[0].avail), host[0].arr) = k)
          ~> Len(rxq[0].used) >= k
    /\ (RxTapParked /\ <<"rx", 0>> \in signaled /\ avail_ring_len(rxq[0]) > 0)
          ~> RxTapArmed

\* C2, its case: one descriptor was posted and used while the tap held two
\* packets, the tap fd is parked, and the guest has posted another descriptor
\* and kicked
C2_ParkedWithPacketsLeft ==
    /\ RxTapParked /\ <<"rx", 0>> \in signaled
    /\ Len(rxq[0].used) = 1 /\ Len(rxq[0].avail) = 2
    /\ host[0].arr = 2 /\ host[0].rd = 1

\* the feature bits every net device offers
BaseFeatures ==
    {VIRTIO_F_VERSION_1, VIRTIO_NET_F_CSUM, VIRTIO_NET_F_GUEST_CSUM,
     VIRTIO_NET_F_GUEST_TSO4, VIRTIO_NET_F_GUEST_TSO6, VIRTIO_NET_F_GUEST_UFO,
     VIRTIO_NET_F_HOST_TSO4, VIRTIO_NET_F_HOST_TSO6, VIRTIO_NET_F_HOST_UFO,
     VIRTIO_F_RING_EVENT_IDX}

\* C11: after realize the device advertises CTRL_VQ and MQ exactly when it has
\* more than one queue pair (never for a single pair, whatever the mq flag),
\* MAC when a (well-formed) MAC address is configured and not when none is, and
\* otherwise exactly the base features.
C11_AdvertisedFeatures ==
    realized > 0 =>
        /\ device_features \ {VIRTIO_NET_F_MAC}
             = BaseFeatures \cup (IF net_cfg.queues \div 2 > 1
                                  THEN {VIRTIO_NET_F_MQ, VIRTIO_NET_F_CTRL_VQ} ELSE {})
        /\ net_cfg.mac = "ok" => VIRTIO_NET_F_MAC \in device_features
        /\ net_cfg.mac = "none" => VIRTIO_NET_F_MAC \notin device_features

\* C12: write_config returns Ok for every offset and length; in every lifecycle
\* state it leaves the config space unchanged unless the write is the 6-byte MAC
\* at offset 0 and neither VERSION_1 nor CTRL_MAC_ADDR is negotiated, and it
\* never changes a byte outside the MAC field.
C12_WriteConfigFrame ==
    [][\A offset \in ConfigOffsets : \A data \in WriteData :
          write_config(offset, data) =>
             /\ cfg_io'.ok
             /\ config_space' # config_space =>
                   /\ offset = 0 /\ Len(data) = MAC_ADDR_LEN
                   /\ VIRTIO_F_VERSION_1 \notin driver_features
                   /\ VIRTIO_NET_F_CTRL_MAC_ADDR \notin driver_features
             /\ \A i \in 1..CONFIG_LEN :
                   i > MAC_ADDR_LEN => config_space'[i] = config_space[i]]_vars

\* a MAC write took effect while Activated
C12_MacWrittenWhileActivated ==
    /\ cfg_io.op = "write" /\ cfg_io.state = "Activated" /\ cfg_io.ok
    /\ cfg_io.offset = 0 /\ cfg_io.data = Fill(7, MAC_ADDR_LEN)
    /\ SubSeq(config_space, 1, MAC_ADDR_LEN) = cfg_io.data
    /\ VIRTIO_NET_F_MAC \in device_features

\* C13: read_config fails exactly when offset >= config length; otherwise it
\* copies the config bytes offset .. min(offset + data.len(), config length)
\* to the front of data and leaves the rest of data alone; the config space is
\* unchanged either way.
C13_ReadConfigBounds ==
    [][\A offset \in ConfigOffsets : \A data \in ReadBufs :
          read_config(offset, data) =>
             /\ config_space' = config_space
             /\ cfg_io'.ok <=> offset < CONFIG_LEN
             /\ ~cfg_io'.ok => cfg_io'.out = data
             /\ cfg_io'.ok =>
                   LET n == Min(Len(data), CONFIG_LEN - offset) IN
                   /\ Len(cfg_io'.out) = Len(data)
                   /\ \A i \in 1..Len(data) :
                         cfg_io'.out[i] = IF i <= n THEN config_space[offset + i]
                                          ELSE data[i]]_vars

\* a read that was cut at the end of the config space
C13_ReadCutAtEnd ==
    /\ cfg_io.op = "read" /\ cfg_io.ok
    /\ cfg_io.offset = 1 /\ Len(cfg_io.data) = CONFIG_LEN
    /\ SubSeq(cfg_io.out, 1, MAC_ADDR_LEN - 1) = Tail(MacBytes)
    /\ cfg_io.out[CONFIG_LEN] = 170

\* C14: update_config posts the new tap of pair i to the handler of every pair
\* i; a pair whose new tap exists (the configuration has a host device) is
\* never sent None.
C14_NewTapForEveryPair ==
    net_cfg.host_dev =>
        \A h \in DOMAIN chan : \A k \in 1..Len(chan[h]) : chan[h][k] # NoTap

Range(f) == {f[x] : x \in DOMAIN f}

\* C15: between callbacks, a registered queue-pair handler has its update,
\* deactivate, rx and tx eventfds registered with exactly one callback each (its
\* own); its tap fd is registered iff it has a tap, and no tap fd it gave up
\* (the old fd after an update) is still registered.
C15_UpdateReregistersOnce ==
    run = IdleRun =>
        \A h \in DOMAIN io :
            EvtFd("update", h) \in DOMAIN notifiers =>
                /\ \A kind \in {"update", "deact", "rx", "tx"} :
                      /\ EvtFd(kind, h) \in DOMAIN notifiers
                      /\ notifiers[EvtFd(kind, h)].cbs = <<h>>
                /\ io[h].tap_fd = io[h].tap
                /\ \A fd \in DOMAIN notifiers :
                      IsTapFd(fd) /\ fd[3] = h[2] /\ h \in Range(notifiers[fd].cbs)
                         => fd = TapFd(h[2], io[h].tap_fd)
                /\ io[h].tap_fd # NoTap =>
                      /\ TapFd(h[2], io[h].tap_fd) \in DOMAIN notifiers
                      /\ notifiers[TapFd(h[2], io[h].tap_fd)].cbs = <<h>>

\* C16: every tap a NetIoHandler holds, whether handed over by activate or by
\* a hot reconfiguration, has had the offload flags of the negotiated driver
\* features written to it.
C16_HandlerTapHasOffload ==
    \A h \in DOMAIN io :
        io[h].tap # NoTap =>
            /\ <<h[2], io[h].tap>> \in DOMAIN offload
            /\ offload[<<h[2], io[h].tap>>]
                  = get_tap_offload_flags(get_driver_features(0))

\* the page-aligned MSI-X table range [TableStart, TableEnd) of the device
TableStart == (vfio.hw.table_offset \div vfio.hw.page_size) * vfio.hw.page_size
TableEnd ==
    LET last == vfio.hw.table_offset + (vfio.hw.ctrl + 1) * MSIX_TABLE_ENTRY_SIZE
    IN ((last + vfio.hw.page_size - 1) \div vfio.hw.page_size) * vfio.hw.page_size

\* C17: on a BAR whose single mmap covers the whole region, the mmap list
\* after fixup_msix_region is the region minus [start, end) in ascending order:
\* [0, start) if start > 0, then [end, size) if end < size, and nothing if the
\* table pages cover the whole BAR.
C17_CarveIsRegionMinusTable ==
    vfio.stage = "bars" /\ vfio.hw.mmaps = <<MmapInfo(0, vfio.hw.size)>> =>
        vfio.mmaps =
            (IF TableStart > 0 THEN <<MmapInfo(0, TableStart)>> ELSE <<>>)
            \o (IF TableEnd < vfio.hw.size
                THEN <<MmapInfo(TableEnd, vfio.hw.size - TableEnd)>> ELSE <<>>)

\* size 0x4000, table_offset 0x1000, 8 entries, page size 0x1000 (the host
\* device holds the COMMAND that pci_config_reset wrote to it)
C17_CarveExample ==
    /\ vfio.stage = "bars"
    /\ vfio.hw = VfioDev(ExampleHw(8)).hw
    /\ vfio.mmaps = <<MmapInfo(0, 4096), MmapInfo(8192, 8192)>>

\* C18: after bar_region_info no mmap sub-range of the table BAR overlaps the
\* page-aligned MSI-X table range, whatever mmap list VFIO reported.
C18_TableNeverMapped ==
    vfio.stage = "bars" =>
        \A i \in 1..Len(vfio.mmaps) :
            ~ranges_overlap(vfio.mmaps[i].offset,
                            vfio.mmaps[i].offset + vfio.mmaps[i].size,
                            TableStart, TableEnd)

\* C19: on every config write, vfio_enable_msix is invoked exactly when the
\* MSI-X enable bit is 0 before the write and 1 after it, vfio_disable_msix
\* exactly when it is 1 before and 0 after, and neither when the bit does not
\* change; a write that is carried out and overlaps the MSI-X capability of
\* the device takes the MSI-X branch.
C19_MsixCallsFollowEnableBit ==
    [][vfio'.writes # vfio.writes =>
          LET was == vfio.enable
              is == vfio'.enable
              w == vfio'.last
          IN /\ w.call = "enable" <=> ~was /\ is
             /\ w.call = "disable" <=> was /\ ~is
             /\ w.call \in {"enable", "disable", "none"}
             /\ (/\ w.branch \notin {"rejected", "failed"}
                 /\ ranges_overlap(w.offset, w.offset + w.size,
                                   MsixCapOffset, MsixCapOffset + MSIX_CAP_SIZE))
                   => w.branch = "msix"]_vars

\* MSI-X was enabled, disabled and enabled again by writes to the capability
C19_EnabledTwice ==
    /\ vfio.log = <<"enable", "disable", "enable">>
    /\ vfio.last.branch = "msix" /\ vfio.last.call = "enable" /\ vfio.enable
    /\ Cardinality(vfio.routes) = MaxVectors

\* C20: the live routes after any later enable equal those after the first
\* enable, no vector has more than one live route, and the successful enables
\* and disables alternate, starting with an enable.
C20_RoutesIdempotentAlternating ==
    /\ vfio.routes # {} => vfio.routes = vfio.first
    /\ \A r1, r2 \in vfio.routes : r1.vector = r2.vector => r1 = r2
    /\ \A i \in 1..Len(vfio.log) :
          vfio.log[i] = IF i % 2 = 1 THEN "enable" ELSE "disable"

\* C21: a config write during which vfio_enable_msix or vfio_disable_msix
\* fails leaves the emulated config as it was before the write (the MSI-X
\* enable and function mask bits in particular), and the enable bit is never
\* set while no irqfd route is registered.
C21_FailedWriteLeavesStateIntact ==
    [][vfio'.writes # vfio.writes =>
          /\ ~vfio'.last.ok =>
                vfio'.enable = vfio.enable /\ vfio'.func_mask = vfio.func_mask
          /\ vfio'.enable => vfio'.routes # {}]_vars

\* C22: write_config sends every accepted write to the host device before
\* the emulated config is touched: a write is rejected exactly when it ends past
\* config_size or is longer than 4 bytes and is then not sent, every other write
\* is sent, and after a rejected write or a failed host write the emulated
\* config, the BAR mapping, the mmap areas and the MSI-X routes are as before.
C22_HostWriteFirst ==
    [][vfio'.writes # vfio.writes =>
          LET l == vfio'.last
              rejected == l.offset + l.size > vfio.config_size \/ l.size > 4
          IN
          /\ (l.branch = "rejected") = rejected
          /\ l.sent = ~rejected
          /\ (rejected \/ l.branch = "failed") =>
                /\ vfio'.config = vfio.config
                /\ vfio'.enable = vfio.enable /\ vfio'.func_mask = vfio.func_mask
                /\ vfio'.bar_map = vfio.bar_map /\ vfio'.mmaps = vfio.mmaps
                /\ vfio'.routes = vfio.routes]_vars

\* C22, its case: the BAR is mapped at a guest address and memory decoding is
\* on, then the host write of a dword to the BAR fails
C22_FailedBarWrite ==
    /\ vfio.last.branch = "failed" /\ vfio.last.offset = BAR_0 /\ vfio.last.size = 4
    /\ vfio.bar_map = <<0, 0, 0, 253>>
    /\ vfio.config[COMMAND] = 2

\* COMMAND.MSE of the image
memory_space(config) == BitAnd(config[COMMAND], COMMAND_MEMORY_SPACE, 8) # 0

\* C23: for every write that overlaps the COMMAND register, whatever its offset
\* and length, and in which no step fails, the BAR mapping is re-run and the
\* BARs are mmapped again exactly when the write makes COMMAND.MSE become set;
\* the bits of neighbouring registers play no part.
C23_RemapWhenMseBecomesSet ==
    [][(vfio'.writes # vfio.writes /\ vfio'.last.branch = "command" /\ vfio'.last.ok) =>
          LET becomes_set == ~memory_space(vfio.config) /\ memory_space(vfio'.config) IN
          /\ vfio'.last.remap = becomes_set
          /\ vfio'.last.mmap = becomes_set]_vars

\* what the BAR reads after the all-ones sizing probe: ~(size - 1), the type
\* bits apart
sizing_answer(v) == [k \in 1..REG_SIZE |-> WriteMask(BAR_0 + k - 1, v.hw.size)]

\* C24: for every write that overlaps a BAR register and in which no step
\* fails, a write of 1, 2 or 4 bytes that changes the base address the BAR
\* holds is followed by a remap at that address, unless it is the all-ones
\* sizing probe.
C24_BarWriteRemaps ==
    [][(vfio'.writes # vfio.writes /\ vfio'.last.branch = "bar" /\ vfio'.last.ok) =>
          \/ bar_address(vfio'.config) = bar_address(vfio.config)
          \/ bar_address(vfio'.config) = sizing_answer(vfio)
          \/ vfio'.last.remap /\ vfio'.bar_map = bar_address(vfio'.config)]_vars

\* C25: in every accepted config read, whatever its offset and length, the
\* byte at 0x3D is returned as 0 and bit 7 of the byte at 0x0E as 0, and every
\* other byte read from the host is returned as the host reports it; a read
\* that ends past config_size or is longer than 4 bytes is rejected and leaves
\* the caller's buffer untouched.
C25_ReadIntercept ==
    LET rd == vfio.rd
        size == Len(rd.buf)
        rejected == rd.offset + size > vfio.config_size \/ size > 4
    IN
    vfio.reads > 0 =>
        /\ (rd.from = "rejected") = rejected
        /\ rejected => rd.out = rd.buf
        /\ rd.from \in {"host", "image"} =>
              \A i \in 1..size :
                 LET o == rd.offset + i - 1 IN
                 /\ o = INTERRUPT_PIN => rd.out[i] = 0
                 /\ o = HEADER_TYPE => rd.out[i] < 128
        /\ rd.from = "host" =>
              \A i \in 1..size :
                 LET o == rd.offset + i - 1
                     b == host_byte(vfio.hw, o)
                 IN
                 rd.out[i] = IF o = INTERRUPT_PIN THEN 0
                             ELSE IF o = HEADER_TYPE THEN b % 128
                             ELSE b

\* C25, its case: a dword read that starts below the two registers and
\* covers them, from a device that reports a pin and the multi-function bit
C25_MaskedInsideDword ==
    /\ vfio.rd.from = "host" /\ Len(vfio.rd.buf) = 4
    /\ vfio.rd.offset \in {12, 58}
    /\ vfio.hw.header[HEADER_TYPE] = 129 /\ vfio.hw.header[INTERRUPT_PIN] = 255
    /\ vfio.rd.out \in {<<0, 0, 1, 0>>, <<0, 0, 11, 0>>}

\* C26: once realize has read the host config and registered the BARs, the
\* emulated config buffer, the write mask and the write-clear mask have the
\* same size, 256 or 4096 bytes.
C26_ImageAndMasksSameSize ==
    vfio.stage = "bars" =>
        /\ vfio.config_len \in {VFIO_CONFIG_SIZE, PCIE_CONFIG_SPACE_SIZE}
        /\ vfio.write_mask_len = vfio.config_len
        /\ vfio.write_clear_mask_len = vfio.config_len

\* C27: a VM has at most one balloon: at most one parse_balloon into a VM
\* succeeds, every call after a success fails with "Only one balloon device
\* is supported for each vm.", and a call that fails leaves the VM unmarked
\* if it was unmarked.
C27_OneBalloonPerVm ==
    [][vm_config'.calls # vm_config.calls =>
          LET res == vm_config'.last.res IN
          /\ vm_config'.parsed <= 1
          /\ vm_config.parsed >= 1 => res = "OnlyOneBalloon"
          /\ res # "Ok" => vm_config'.dev_name = vm_config.dev_name
          /\ res = "Ok" => vm_config.dev_name = {} /\ vm_config'.dev_name = {"balloon"}]_vars

\* C27, its case: a first command line is refused, a second one is accepted,
\* and a third one that would pass every check is refused as the second balloon
C27_SecondBalloonRefused ==
    /\ vm_config.calls = 3 /\ vm_config.parsed = 1
    /\ vm_config.last.res = "OnlyOneBalloon"
    /\ vm_config.last.opts.args_ok /\ vm_config.last.opts.auto_balloon = {}

\* C28: the balloon parsed has membuf_percent 50 and monitor_interval 10
\* where the command line gives none; with auto_balloon on, a command line
\* that parses is refused with IllegalValue exactly when membuf_percent is
\* outside 20..=80 or monitor_interval is outside 5..=300; with auto_balloon
\* off every value of the two is accepted.
C28_BalloonRanges ==
    LET l == vm_config.last
        o == l.opts
        auto == o.auto_balloon = {TRUE}
        membuf == value_or(o.membuf_percent, 50)
        interval == value_or(o.monitor_interval, 10)
        outside == membuf < 20 \/ membuf > 80 \/ interval < 5 \/ interval > 300
    IN
    (vm_config.calls > 0 /\ ~l.had /\ o.args_ok /\ o.id_len <= 255) =>
        /\ (l.res = "IllegalValue") = (auto /\ outside)
        /\ l.res \in {"Ok", "IllegalValue"}
        /\ l.res = "Ok" =>
              /\ l.balloon.membuf_percent = membuf
              /\ l.balloon.monitor_interval = interval
              /\ l.balloon.auto_balloon = auto

\* C28, its cases: both values at a bound with auto_balloon on are accepted
C28_AcceptedAtBounds ==
    /\ vm_config.last.res = "Ok" /\ vm_config.last.balloon.auto_balloon
    /\ vm_config.last.balloon.membuf_percent = 80
    /\ vm_config.last.balloon.monitor_interval = 5

\* C29: start asks for the transition Created -> Running, pause for
\* Running -> Paused, resume for Paused -> Running.
C29_LifecycleRequests ==
    \A k \in 1..Len(machine.log) :
        LET r == machine.log[k] IN
        /\ r.op = "start" => r.old = "Created" /\ r.new = "Running"
        /\ r.op = "pause" => r.old = "Running" /\ r.new = "Paused"
        /\ r.op = "resume" => r.old = "Paused" /\ r.new = "Running"

\* C30: destroy can be called in every state: it asks for the transition out
\* of the state the machine is in to the terminated state, and so terminates
\* the machine.
C30_DestroyFromEveryState ==
    \A k \in 1..Len(machine.log) :
        LET r == machine.log[k] IN
        r.op = "destroy" => r.old = r.was /\ r.new = "Shutdown" /\ r.ok

\* C31: when readv fails with EAGAIN in handle_rx (the tap works and holds
\* fewer packets than the rx ring holds well-formed chains), the chain popped
\* last is pushed back: last_avail_idx has advanced by the packets read only,
\* one used entry and at most one interrupt per packet read were added, the
\* callback reports no error, queue_full is not set and the tap stays armed.
C31_WouldBlockPushesBack ==
    [][\A fd \in DOMAIN notifiers : \A h \in DOMAIN io :
          LET i == h[2]
              q == rxq[i]
              n == host[i].arr - host[i].rd
          IN
          (/\ TapCb(fd, h)
           /\ io[h].tap # NoTap /\ host[i].st = "ok" /\ ~io[h].queue_full
           /\ avail_ring_len(q) > n
           /\ \A k \in (q.last_avail + 1)..(q.last_avail + n + 1) : q.avail[k].kind = "ok")
          => /\ rxq'[i].last_avail = q.last_avail + n
             /\ Len(rxq'[i].used) = Len(q.used) + n
             /\ Len(rxq'[i].irq) <= Len(q.irq) + n
             /\ host'[i].rd = host[i].arr
             /\ needs_reset' = needs_reset /\ hist'.failed = hist.failed
             /\ signaled' = signaled
             /\ ~io'[h].queue_full /\ io'[h].is_listening = io[h].is_listening
             /\ fd \in DOMAIN notifiers' /\ notifiers'[fd].status = notifiers[fd].status]_vars

\* C31, its case: one packet was read into the first of two posted chains,
\* the second chain was popped and pushed back, and the tap is still armed
C31_ChainPushedBack ==
    /\ host[0].st = "ok" /\ host[0].rd = 1 /\ host[0].arr = 1
    /\ Len(rxq[0].avail) = 2 /\ rxq[0].last_avail = 1 /\ Len(rxq[0].used) = 1
    /\ run = IdleRun /\ ready = {}
    /\ RxTapArmed

\* C32: when readv fails with an error other than EAGAIN in handle_rx (the
\* tap device is faulty or gone while a well-formed chain is posted), the
\* chain is given back, the tap is read once to drain it, and handle_rx
\* returns an error, so that the tap callback reports a virtio error:
\* DEVICE_NEEDS_RESET is set and the deactivate eventfd is signaled.
C32_HardErrorReported ==
    [][\A fd \in DOMAIN notifiers : \A h \in DOMAIN io :
          LET i == h[2]
              q == rxq[i]
          IN
          (/\ TapCb(fd, h)
           /\ io[h].tap # NoTap /\ host[i].st # "ok"
           /\ avail_ring_len(q) > 0 /\ q.avail[q.last_avail + 1].kind = "ok")
          => /\ rxq'[i] = q
             /\ host'[i] = tap_read(host[i])
             /\ needs_reset'
             /\ DeactEvt \in signaled']_vars

\* C33: in every run of handle_rx, each successful readv publishes exactly one
\* used entry, for the chain popped and with the length read, before the next
\* chain is popped, so the used entries follow the pop order; and a Vring
\* interrupt is raised for a used entry if and only if should_notify holds
\* after it was added (NO_INTERRUPT clear, or used_event at that entry when
\* RING_EVENT_IDX was negotiated).
C33_UsedAndInterruptPerPacket ==
    [][\A fd \in DOMAIN notifiers : \A h \in DOMAIN io :
          LET i == h[2]
              q == rxq[i]
              r == rxq'[i]
              m == Len(r.used) - Len(q.used)
              new == (Len(q.used) + 1)..Len(r.used)
              wanted(k) ==
                  IF VIRTIO_F_RING_EVENT_IDX \in driver_features
                  THEN q.used_event = k
                  ELSE ~q.no_interrupt
              raised == {r.irq[x] : x \in (Len(q.irq) + 1)..Len(r.irq)}
          IN
          TapCb(fd, h)
          => /\ m >= 0 /\ SubSeq(r.used, 1, Len(q.used)) = q.used
             /\ r.last_avail = q.last_avail + m
             /\ \A j \in 1..m :
                   r.used[Len(q.used) + j] = [id |-> q.last_avail + j, len |-> host[i].rd + j]
             /\ host[i].st = "ok" => host'[i].rd = host[i].rd + m
             /\ SubSeq(r.irq, 1, Len(q.irq)) = q.irq
             /\ raised = {k \in new : wanted(k)}
             /\ Len(r.irq) - Len(q.irq) = Cardinality(raised)]_vars

\* C33, its case: two packets were received, the driver asked for an
\* interrupt at the second used entry only
C33_SecondEntryNotified ==
    /\ Len(rxq[0].used) = 2 /\ rxq[0].irq = <<2>>
    /\ host[0].rd = 2

\* C34: in every run of handle_tx on well-formed chains: if writev accepts
\* every posted chain (or there is no tap), the handler returns Ok, the avail
\* ring is drained and every chain popped got exactly one used entry of
\* length 0, whatever writev wrote; if writev fails on a chain, the handler
\* bails: the chains before it were written and got their used entries, and no
\* chain after it is popped or written.
C34_TxDrainsOrBails ==
    [][\A fd \in DOMAIN notifiers : \A h \in DOMAIN io :
          LET i == h[2]
              q == txq[i]
              r == txq'[i]
              tap == io[h].tap
              pending == avail_ring_len(q)
              room == IF host[i].st = "gone" THEN 0 ELSE host[i].room
              well_formed(n) ==
                  \A k \in (q.last_avail + 1)..(q.last_avail + n) : q.avail[k].kind = "ok"
              used_for(n) ==
                  /\ Len(r.used) = Len(q.used) + n
                  /\ SubSeq(r.used, 1, Len(q.used)) = q.used
                  /\ \A j \in 1..n :
                        r.used[Len(q.used) + j] = [id |-> q.last_avail + j, len |-> 0]
              written(n) ==
                  /\ Len(host'[i].sent) = Len(host[i].sent) + n
                  /\ \A j \in 1..n :
                        host'[i].sent[Len(host[i].sent) + j] = q.last_avail + j
          IN
          TxKickCb(fd, h)
          => /\ (well_formed(pending) /\ (tap = NoTap \/ room >= pending))
                => /\ avail_ring_len(r) = 0
                   /\ used_for(pending)
                   /\ written(IF tap = NoTap THEN 0 ELSE pending)
                   /\ hist'.failed = hist.failed
             /\ (tap # NoTap /\ room < pending /\ well_formed(room + 1))
                => /\ r.last_avail = q.last_avail + room + 1
                   /\ used_for(room)
                   /\ written(room)
                   /\ <<"tx", "io">> \in hist'.failed]_vars

\* C34, its case: the tap took two chains and both got a used entry of
\* length 0; on the third chain writev failed and the handler bailed with the
\* chain popped
C34_TwoWrittenThirdBails ==
    /\ Len(txq[0].avail) = 3 /\ txq[0].last_avail = 3
    /\ txq[0].used = <<[id |-> 1, len |-> 0], [id |-> 2, len |-> 0]>>
    /\ host[0].sent = <<1, 2>>
    /\ hist.failed = {<<"tx", "io">>}
\* slot i of the host header is the upper half of a 64-bit memory BAR: the slot
\* before it is a memory BAR of type 64-bit and is not itself an upper half
RECURSIVE IsUpperHalf(_, _)
IsUpperHalf(header, i) ==
    /\ i > 0
    /\ ~IsUpperHalf(header, i - 1)
    /\ header[BAR_0 + REG_SIZE * (i - 1)] % 2 = 0
    /\ (header[BAR_0 + REG_SIZE * (i - 1)] \div 2) % 4 = 2

\* C35: after pci_config_reset the COMMAND of the image has IO, MEMORY,
\* BUS_MASTER and INTERRUPT_DISABLE clear and the real device holds the same
\* COMMAND; each of the six BAR slots holds only the type bits of the host BAR
\* and no base-address bit, and the upper half of a 64-bit BAR holds nothing
C35_ResetLeavesNoHostAddress ==
    vfio.stage \in {"config", "msix", "bars"} =>
        /\ BitAnd(vfio.config[COMMAND], 7, 8) = 0
        /\ BitAnd(vfio.config[COMMAND + 1], 4, 8) = 0
        /\ vfio.hw.header[COMMAND] = vfio.config[COMMAND]
        /\ vfio.hw.header[COMMAND + 1] = vfio.config[COMMAND + 1]
        /\ \A i \in 0..5 :
             LET o == BAR_0 + REG_SIZE * i
                 bar == vfio.hw.header[o] IN
             /\ \A k \in 1..3 : vfio.config[o + k] = 0
             /\ vfio.config[o] =
                  IF IsUpperHalf(vfio.hw.header, i) THEN 0
                  ELSE IF bar % 2 = 1 THEN bar % 4 ELSE bar % 16
\* C36: when deactivate() is followed by activate(), the handlers of the new
\* activation stay registered: while the device is activated and no handler
\* has failed, every handler of the current activation has its queue-evt and
\* deactivate fds in the event loop
C36_NewActivationStaysRegistered ==
    (lifecycle = "Activated" /\ ~needs_reset /\ hist.failed = {}) =>
        \A h \in DOMAIN io :
            h[1] = gen =>
                /\ EvtFd("rx", h) \in DOMAIN notifiers
                /\ EvtFd("tx", h) \in DOMAIN notifiers
                /\ EvtFd("deact", h) \in DOMAIN notifiers
\* the event loop is quiescent: no callback is running or due and no armed fd
\* is readable
Quiescent == ready = {} /\ run = IdleRun /\ Harvest = {}

\* C37: after any sequence of update_config calls on the activated device,
\* once the event loop is quiescent, the handler's tap is the one the most
\* recent update_config posted for it and its channel is empty
C37_LatestTapInstalled ==
    (Quiescent /\ lifecycle = "Activated" /\ realized > 1) =>
        \A h \in DOMAIN io :
            /\ chan[h] = <<>>
            /\ io[h].tap = TapAt(create_tap(net_cfg, realized - 1), h[2])
\* C38: between callbacks, a handler whose current tap fd is registered has
\* is_listening false exactly when that fd is Parked and true exactly when it
\* is armed, and queue_full is false; also after a hot reconfiguration
C38_ListeningMatchesTapFd ==
    run = IdleRun =>
        \A h \in DOMAIN io :
            LET fd == TapFd(h[2], io[h].tap_fd) IN
            (HandlerAlive(h) /\ io[h].tap_fd # NoTap /\ fd \in DOMAIN notifiers) =>
                /\ io[h].is_listening = (notifiers[fd].status = "Alive")
                /\ ~io[h].queue_full
\* C39: every byte of the BAR registers (0x10..0x27) that an accepted config
\* read returns comes from the emulated config and not from the host device,
\* whatever the offset and length of the read
C39_BarBytesFromImage ==
    LET rd == vfio.rd IN
    (vfio.reads > 0 /\ rd.from \in {"host", "image"}) =>
        \A i \in 1..Len(rd.buf) :
            LET o == rd.offset + i - 1 IN
            (o >= BAR_0 /\ o < BAR_5 + REG_SIZE) =>
                rd.from = "image" /\ rd.out[i] = vfio.config[o]
\* C40: after fixup_msix_region every mmap sub-range of the table BAR is
\* non-empty, lies within the region and is disjoint from the others, for
\* every table offset and entry count the capability reports
C40_MmapsInsideRegion ==
    vfio.stage = "bars" =>
        /\ \A i \in 1..Len(vfio.mmaps) :
              /\ vfio.mmaps[i].size > 0
              /\ vfio.mmaps[i].offset + vfio.mmaps[i].size <= vfio.hw.size
        /\ \A i, j \in 1..Len(vfio.mmaps) :
              i < j => ~ranges_overlap(vfio.mmaps[i].offset,
                                       vfio.mmaps[i].offset + vfio.mmaps[i].size,
                                       vfio.mmaps[j].offset,
                                       vfio.mmaps[j].offset + vfio.mmaps[j].size)
====
